---- MODULE Spec2Model ----
(***************************************************************************)
(* GhostRider proof-of-work hash (crates/salvium-miner-gr/ghostrider):     *)
(* the selection algorithm, the 3-part pipeline of ghostrider_ffi.c and    *)
(* the CryptoNight engine of cryptonight.c, as a state machine.            *)
(*                                                                         *)
(* Buffers are sequences of bytes (0..255); the byte at C offset k of a    *)
(* buffer b is b[k + 1].                                                   *)
(***************************************************************************)
EXTENDS Integers, Sequences, FiniteSets, TLC

VARIABLES sel, ctx, call, output, hist, results, ncalls, sph, heap, unit

vars == <<sel, ctx, call, output, hist, results, ncalls, sph, heap, unit>>

\* The state of the entry points that take no context.
aux == <<sph, heap, unit>>

(* ------------------------------------------------------------------ *)
(* Bounds of the model.                                                 *)
(* ------------------------------------------------------------------ *)

\* Seeds of the selection check are seed[i] = (a * i + b) % 256 with
\* b in 0..SeedSpan or b = 255 and a in SeedSteps.
SeedSpan == 15

SeedSteps == {0, 1, 16, 17, 32, 37, 255}

\* The smallest region an Explode fills is 2^LogUnit strides of 8 blocks.
LogUnit == 0

\* The hashes ghostrider_hash runs in one behaviour.
MaxCalls == 2

\* The calls of ghostrider_sph_hash in one behaviour.
MaxSphCalls == 2

\* The calls of ghostrider_alloc_ctx in one behaviour.
MaxAllocs == 3

\* The turns of the absorbing loop of gr_keccak that are followed.
MaxTurns == 3

\* The bits of one limb of the multiplication checked on its own: a word
\* has two limbs (32 and 64 bits in the source).
LimbBits == 4

\* The direct calls of cryptonight_hash in one behaviour.
MaxCnCalls == 1

(* ------------------------------------------------------------------ *)
(* Bytes, words and lanes.                                              *)
(* ------------------------------------------------------------------ *)

Bit(x, k) == (x \div (2 ^ k)) % 2

\* The bitwise operations of C, tabulated: on 4 bits (index a + 1, b + 1),
\* and from these on one byte.
NibXor ==
    [a \in 1..16 |->
        [b \in 1..16 |->
            LET d(k) == ((Bit(a - 1, k) + Bit(b - 1, k)) % 2) * (2 ^ k)
            IN d(0) + d(1) + d(2) + d(3)] \o <<>>] \o <<>>

NibAnd ==
    [a \in 1..16 |->
        [b \in 1..16 |->
            LET d(k) == (Bit(a - 1, k) * Bit(b - 1, k)) * (2 ^ k)
            IN d(0) + d(1) + d(2) + d(3)] \o <<>>] \o <<>>

ByteTab(nib) ==
    [a \in 1..256 |->
        [b \in 1..256 |->
            nib[((a - 1) % 16) + 1][((b - 1) % 16) + 1]
            + (16 * nib[((a - 1) \div 16) + 1][((b - 1) \div 16) + 1])] \o <<>>] \o <<>>

XorTab == ByteTab(NibXor)

AndTab == ByteTab(NibAnd)

ByteXor(a, b) == XorTab[a + 1][b + 1]

ByteAnd(a, b) == AndTab[a + 1][b + 1]

ByteNot(a) == 255 - a

\* a | b = (a ^ b) ^ (a & b)
ByteOr(a, b) == ByteXor(ByteXor(a, b), ByteAnd(a, b))

\* s ^ t, byte by byte, for two buffers of the same length.
XorBytes(s, t) == [j \in 1..Len(s) |-> ByteXor(s[j], t[j])] \o <<>>

\* n zero bytes (memset(p, 0, n), calloc).
Zeros(n) == [j \in 1..n |-> 0] \o <<>>

\* The n bytes at C offset off of buffer b (memcpy(dst, b + off, n)).
Bytes(b, off, n) == SubSeq(b, off + 1, off + n)

\* Buffer b with the bytes s stored at C offset off (memcpy(b + off, s, n)).
Store(b, off, s) ==
    SubSeq(b, 1, off) \o s \o SubSeq(b, off + Len(s) + 1, Len(b))

\* x & m for non-negative integers (uint32_t, size_t).
RECURSIVE BitAnd(_, _)
BitAnd(x, m) ==
    IF x = 0 \/ m = 0 THEN 0
    ELSE ((x % 2) * (m % 2)) + 2 * BitAnd(x \div 2, m \div 2)

(* ------------------------------------------------------------------ *)
(* keccak.c. A uint64_t lane is its 8 bytes, least significant first.   *)
(* ------------------------------------------------------------------ *)

HASH_DATA_AREA == 136

KECCAK_ROUNDS == 24

keccakf_rndc ==
    << <<\h01, \h00, \h00, \h00, \h00, \h00, \h00, \h00>>,
       <<\h82, \h80, \h00, \h00, \h00, \h00, \h00, \h00>>,
       <<\h8a, \h80, \h00, \h00, \h00, \h00, \h00, \h80>>,
       <<\h00, \h80, \h00, \h80, \h00, \h00, \h00, \h80>>,
       <<\h8b, \h80, \h00, \h00, \h00, \h00, \h00, \h00>>,
       <<\h01, \h00, \h00, \h80, \h00, \h00, \h00, \h00>>,
       <<\h81, \h80, \h00, \h80, \h00, \h00, \h00, \h80>>,
       <<\h09, \h80, \h00, \h00, \h00, \h00, \h00, \h80>>,
       <<\h8a, \h00, \h00, \h00, \h00, \h00, \h00, \h00>>,
       <<\h88, \h00, \h00, \h00, \h00, \h00, \h00, \h00>>,
       <<\h09, \h80, \h00, \h80, \h00, \h00, \h00, \h00>>,
       <<\h0a, \h00, \h00, \h80, \h00, \h00, \h00, \h00>>,
       <<\h8b, \h80, \h00, \h80, \h00, \h00, \h00, \h00>>,
       <<\h8b, \h00, \h00, \h00, \h00, \h00, \h00, \h80>>,
       <<\h89, \h80, \h00, \h00, \h00, \h00, \h00, \h80>>,
       <<\h03, \h80, \h00, \h00, \h00, \h00, \h00, \h80>>,
       <<\h02, \h80, \h00, \h00, \h00, \h00, \h00, \h80>>,
       <<\h80, \h00, \h00, \h00, \h00, \h00, \h00, \h80>>,
       <<\h0a, \h80, \h00, \h00, \h00, \h00, \h00, \h00>>,
       <<\h0a, \h00, \h00, \h80, \h00, \h00, \h00, \h80>>,
       <<\h81, \h80, \h00, \h80, \h00, \h00, \h00, \h80>>,
       <<\h80, \h80, \h00, \h00, \h00, \h00, \h00, \h80>>,
       <<\h01, \h00, \h00, \h80, \h00, \h00, \h00, \h00>>,
       <<\h08, \h80, \h00, \h80, \h00, \h00, \h00, \h80>> >>

\* ROTL64(x, y) = (x << y) | (x >> (64 - y)), 0 < y < 64
ROTL64(x, y) ==
    LET q == y \div 8
        r == y % 8
        lo(k) == x[((k - 1 - q + 8) % 8) + 1]
        hi(k) == x[((k - 2 - q + 16) % 8) + 1]
    IN [k \in 1..8 |->
           IF r = 0 THEN lo(k)
           ELSE ((lo(k) * (2 ^ r)) % 256) + (hi(k) \div (2 ^ (8 - r)))] \o <<>>

\* The 25 lanes of a 200-byte state, and back.
LanesOf(bytes) == [i \in 1..25 |-> Bytes(bytes, 8 * (i - 1), 8)] \o <<>>

BytesOf(st) == [j \in 1..200 |-> st[((j - 1) \div 8) + 1][((j - 1) % 8) + 1]] \o <<>>

\* Theta: bc[i] = st[i] ^ st[i+5] ^ st[i+10] ^ st[i+15] ^ st[i+20];
\* X(i): t = bc[(i+4)%5] ^ ROTL64(bc[(i+1)%5], 1); st[i + 5j] ^= t.
Theta(st) ==
    LET bc == [i \in 1..5 |->
                  XorBytes(XorBytes(XorBytes(XorBytes(st[i], st[i + 5]),
                           st[i + 10]), st[i + 15]), st[i + 20])] \o <<>>
        t  == [i \in 1..5 |->
                  XorBytes(bc[((i + 3) % 5) + 1],
                           ROTL64(bc[(i % 5) + 1], 1))] \o <<>>
    IN [j \in 1..25 |-> XorBytes(st[j], t[((j - 1) % 5) + 1])] \o <<>>

\* Rho Pi: st[dst] = ROTL64(st[src], n); entry dst + 1 is <<src, n>>, and
\* st[0] is left alone (keccak.c:55-81).
RhoPi ==
    << <<0, 0>>, <<6, 44>>, <<12, 43>>, <<18, 21>>, <<24, 14>>,
       <<3, 28>>, <<9, 20>>, <<10, 3>>, <<16, 45>>, <<22, 61>>,
       <<1, 1>>, <<7, 6>>, <<13, 25>>, <<19, 8>>, <<20, 18>>,
       <<4, 27>>, <<5, 36>>, <<11, 10>>, <<17, 15>>, <<23, 56>>,
       <<2, 62>>, <<8, 55>>, <<14, 39>>, <<15, 41>>, <<21, 2>> >>

RhoPiStep(st) ==
    [j \in 1..25 |->
        IF RhoPi[j][2] = 0 THEN st[RhoPi[j][1] + 1]
        ELSE ROTL64(st[RhoPi[j][1] + 1], RhoPi[j][2])] \o <<>>

\* Chi: st[j + k] ^= (~st[j + (k+1)%5]) & st[j + (k+2)%5], j = 0, 5, ..., 20.
Chi(st) ==
    [i \in 1..25 |->
        LET j == ((i - 1) \div 5) * 5
            k == (i - 1) % 5
            a == st[j + ((k + 1) % 5) + 1]
            b == st[j + ((k + 2) % 5) + 1]
        IN [m \in 1..8 |->
               ByteXor(st[i][m], ByteAnd(ByteNot(a[m]), b[m]))] \o <<>>] \o <<>>

\* Iota: st[0] ^= keccakf_rndc[round]
Iota(st, round) == [st EXCEPT ![1] = XorBytes(st[1], keccakf_rndc[round + 1])]

KeccakRound(st, round) == Iota(Chi(RhoPiStep(Theta(st))), round)

\* for (round = 0; round < rounds; ++round) { ... }
\* (the test on Len makes TLC evaluate each round once)
RECURSIVE KeccakRounds(_, _, _)
KeccakRounds(st, round, rounds) ==
    IF round >= rounds THEN st
    ELSE LET t == KeccakRound(st, round)
         IN IF Len(t) = 25 THEN KeccakRounds(t, round + 1, rounds) ELSE t

\* gr_keccakf(st, rounds), on the state as 200 bytes
gr_keccakf(bytes, rounds) == BytesOf(KeccakRounds(LanesOf(bytes), 0, rounds))

(* ------------------------------------------------------------------ *)
(* keccak.c: the sponge gr_keccak (keccak.c:136-167).                   *)
(* ------------------------------------------------------------------ *)

\* rsiz = sizeof(state_t) == mdlen ? HASH_DATA_AREA : 200 - 2 * mdlen
KeccakRate(mdlen) == IF mdlen = 200 THEN HASH_DATA_AREA ELSE 200 - (2 * mdlen)

\* for (i = 0; i < rsizw; i++) st[i] ^= ((const uint64_t *)buf)[i]
AbsorbLanes(st, buf, rsizw) ==
    [i \in 1..25 |->
        IF i <= rsizw THEN XorBytes(st[i], Bytes(buf, 8 * (i - 1), 8))
        ELSE st[i]] \o <<>>

\* for ( ; inlen >= rsiz; inlen -= rsiz, in += rsiz) { absorb; gr_keccakf }
\* The result is the state with what is left of the input.
RECURSIVE AbsorbBlocks(_, _, _)
AbsorbBlocks(st, in, rsiz) ==
    IF Len(in) >= rsiz
    THEN LET t == KeccakRounds(AbsorbLanes(st, in, rsiz \div 8), 0, KECCAK_ROUNDS)
         IN IF Len(t) = 25
            THEN AbsorbBlocks(t, SubSeq(in, rsiz + 1, Len(in)), rsiz)
            ELSE [st |-> t, in |-> in]
    ELSE [st |-> st, in |-> in]

\* memcpy(temp, in, inlen); temp[inlen++] = 1;
\* memset(temp + inlen, 0, rsiz - inlen); temp[rsiz - 1] |= 0x80;
PadBlock(in, rsiz) ==
    LET t == in \o <<1>> \o Zeros(rsiz - Len(in) - 1)
    IN [t EXCEPT ![rsiz] = ByteOr(@, \h80)]

\* gr_keccak(in, inlen, md, mdlen): the mdlen bytes written to md
gr_keccak(in, inlen, mdlen) ==
    LET rsiz == KeccakRate(mdlen)
        a    == AbsorbBlocks([i \in 1..25 |-> Zeros(8)] \o <<>>,
                             Bytes(in, 0, inlen), rsiz)
        st   == KeccakRounds(AbsorbLanes(a.st, PadBlock(a.in, rsiz), rsiz \div 8),
                             0, KECCAK_ROUNDS)
    IN Bytes(BytesOf(st), 0, mdlen)

(* ------------------------------------------------------------------ *)
(* cryptonight.c: AES tables and helpers. A uint32_t word is its 4      *)
(* bytes, least significant first; a block or a round key is 16 bytes.  *)
(* ------------------------------------------------------------------ *)

\* The S-box values listed by the macro saes_data (cryptonight.c:36-68).
saes_data ==
    << \h63, \h7c, \h77, \h7b, \hf2, \h6b, \h6f, \hc5,
       \h30, \h01, \h67, \h2b, \hfe, \hd7, \hab, \h76,
       \hca, \h82, \hc9, \h7d, \hfa, \h59, \h47, \hf0,
       \had, \hd4, \ha2, \haf, \h9c, \ha4, \h72, \hc0,
       \hb7, \hfd, \h93, \h26, \h36, \h3f, \hf7, \hcc,
       \h34, \ha5, \he5, \hf1, \h71, \hd8, \h31, \h15,
       \h04, \hc7, \h23, \hc3, \h18, \h96, \h05, \h9a,
       \h07, \h12, \h80, \he2, \heb, \h27, \hb2, \h75,
       \h09, \h83, \h2c, \h1a, \h1b, \h6e, \h5a, \ha0,
       \h52, \h3b, \hd6, \hb3, \h29, \he3, \h2f, \h84,
       \h53, \hd1, \h00, \hed, \h20, \hfc, \hb1, \h5b,
       \h6a, \hcb, \hbe, \h39, \h4a, \h4c, \h58, \hcf,
       \hd0, \hef, \haa, \hfb, \h43, \h4d, \h33, \h85,
       \h45, \hf9, \h02, \h7f, \h50, \h3c, \h9f, \ha8,
       \h51, \ha3, \h40, \h8f, \h92, \h9d, \h38, \hf5,
       \hbc, \hb6, \hda, \h21, \h10, \hff, \hf3, \hd2,
       \hcd, \h0c, \h13, \hec, \h5f, \h97, \h44, \h17,
       \hc4, \ha7, \h7e, \h3d, \h64, \h5d, \h19, \h73,
       \h60, \h81, \h4f, \hdc, \h22, \h2a, \h90, \h88,
       \h46, \hee, \hb8, \h14, \hde, \h5e, \h0b, \hdb,
       \he0, \h32, \h3a, \h0a, \h49, \h06, \h24, \h5c,
       \hc2, \hd3, \hac, \h62, \h91, \h95, \he4, \h79,
       \he7, \hc8, \h37, \h6d, \h8d, \hd5, \h4e, \ha9,
       \h6c, \h56, \hf4, \hea, \h65, \h7a, \hae, \h08,
       \hba, \h78, \h25, \h2e, \h1c, \ha6, \hb4, \hc6,
       \he8, \hdd, \h74, \h1f, \h4b, \hbd, \h8b, \h8a,
       \h70, \h3e, \hb5, \h66, \h48, \h03, \hf6, \h0e,
       \h61, \h35, \h57, \hb9, \h86, \hc1, \h1d, \h9e,
       \he1, \hf8, \h98, \h11, \h69, \hd9, \h8e, \h94,
       \h9b, \h1e, \h87, \he9, \hce, \h55, \h28, \hdf,
       \h8c, \ha1, \h89, \h0d, \hbf, \he6, \h42, \h68,
       \h41, \h99, \h2d, \h0f, \hb0, \h54, \hbb, \h16 >>

\* saes_f2(x) = (x << 1) ^ (((x >> 7) & 1) * SAES_WPOLY), SAES_WPOLY = 0x011b
saes_f2(x) == IF x >= 128 THEN ByteXor((2 * x) - 256, \h1b) ELSE 2 * x

saes_f3(x) == ByteXor(saes_f2(x), x)

\* saes_u0 .. saes_u3: saes_b2w(b0, b1, b2, b3) has b0 as its lowest byte.
saes_u(t, p) ==
    CASE t = 0 -> <<saes_f2(p), p, p, saes_f3(p)>>
      [] t = 1 -> <<saes_f3(p), saes_f2(p), p, p>>
      [] t = 2 -> <<p, saes_f3(p), saes_f2(p), p>>
      [] t = 3 -> <<p, p, saes_f3(p), saes_f2(p)>>

\* saes_table[4][256] (entry t + 1, x + 1) and saes_sbox[256] (entry x + 1)
saes_table ==
    [t \in 1..4 |-> [x \in 1..256 |-> saes_u(t - 1, saes_data[x])] \o <<>>] \o <<>>

saes_sbox == saes_data

XorWord(a, b) ==
    <<ByteXor(a[1], b[1]), ByteXor(a[2], b[2]),
      ByteXor(a[3], b[3]), ByteXor(a[4], b[4])>>

cn_sub_word(w) ==
    <<saes_sbox[w[1] + 1], saes_sbox[w[2] + 1],
      saes_sbox[w[3] + 1], saes_sbox[w[4] + 1]>>

\* cn_rotr32(x, n) = (x >> n) | (x << (32 - n)), 0 < n < 32
cn_rotr32(x, n) ==
    LET q == n \div 8
        r == n % 8
        lo(k) == x[((k - 1 + q) % 4) + 1]
        hi(k) == x[((k + q) % 4) + 1]
    IN [k \in 1..4 |->
           IF r = 0 THEN lo(k)
           ELSE (lo(k) \div (2 ^ r)) + ((hi(k) * (2 ^ (8 - r))) % 256)] \o <<>>

\* sl_xor: {a, b, c, d} -> {a, a^b, a^b^c, a^b^c^d}, on 4 words (16 bytes)
sl_xor(x) ==
    LET w0 == Bytes(x, 0, 4)
        w1 == XorWord(Bytes(x, 4, 4), w0)
        w2 == XorWord(Bytes(x, 8, 4), w1)
        w3 == XorWord(Bytes(x, 12, 4), w2)
    IN w0 \o w1 \o w2 \o w3

\* xout[0..3] ^= assist
XorAssist(x, assist) ==
    XorWord(Bytes(x, 0, 4), assist) \o XorWord(Bytes(x, 4, 4), assist)
        \o XorWord(Bytes(x, 8, 4), assist) \o XorWord(Bytes(x, 12, 4), assist)

rcons == <<\h01, \h02, \h04, \h08>>

\* cn_aes_genkey: the loop body for round r, from (xout0, xout2) to the
\* two round keys rk[2 + 2r], rk[3 + 2r] (the new xout0 and xout2).
GenKeyStep(xout0, xout2, r) ==
    LET assist  == XorWord(cn_rotr32(cn_sub_word(Bytes(xout2, 12, 4)), 8),
                           <<rcons[r + 1], 0, 0, 0>>)
        even    == XorAssist(sl_xor(xout0), assist)
        assist2 == cn_sub_word(Bytes(even, 12, 4))
        odd     == XorAssist(sl_xor(xout2), assist2)
    IN <<even, odd>>

RECURSIVE GenKeyLoop(_, _, _, _)
GenKeyLoop(rk, xout0, xout2, r) ==
    IF r >= 4 THEN rk
    ELSE LET s == GenKeyStep(xout0, xout2, r)
         IN IF Len(s) = 2
            THEN GenKeyLoop(rk \o s, s[1], s[2], r + 1)
            ELSE rk

\* cn_aes_genkey(key, rk): 32 bytes -> 10 round keys (rk[i] is entry i + 1)
cn_aes_genkey(key) ==
    GenKeyLoop(<<Bytes(key, 0, 16), Bytes(key, 16, 16)>>,
               Bytes(key, 0, 16), Bytes(key, 16, 16), 0)

\* cn_aes_round: one AES round with the T-tables;
\* y_j = t0[x_j & 0xff] ^ t1[(x_{j+1} >> 8) & 0xff] ^ t2[(x_{j+2} >> 16) & 0xff]
\*       ^ t3[x_{j+3} >> 24] ^ key[j]
cn_aes_round(block, key) ==
    LET x(j, k) == block[(4 * j) + k + 1]
        t(n, b) == saes_table[n + 1][b + 1]
        y(j) == XorWord(XorWord(XorWord(XorWord(
                    t(0, x(j, 0)),
                    t(1, x((j + 1) % 4, 1))),
                    t(2, x((j + 2) % 4, 2))),
                    t(3, x((j + 3) % 4, 3))),
                    Bytes(key, 4 * j, 4))
    IN y(0) \o y(1) \o y(2) \o y(3)

\* cn_aes_round_to: the same round, from src to dst
cn_aes_round_to(src, key) == cn_aes_round(src, key)

\* cn_aes_10rounds: for (i = 0; i < 10; i++) cn_aes_round(block, rk[i])
RECURSIVE AesRounds(_, _, _)
AesRounds(block, rk, i) ==
    IF i >= 10 THEN block
    ELSE LET b == cn_aes_round(block, rk[i + 1])
         IN IF Len(b) = 16 THEN AesRounds(b, rk, i + 1) ELSE b

cn_aes_10rounds(block, rk) == AesRounds(block, rk, 0)

(* ------------------------------------------------------------------ *)
(* cryptonight.c: 64-bit arithmetic of the main loop, on 8-byte values. *)
(* ------------------------------------------------------------------ *)

\* a + b modulo 2^64
RECURSIVE AddCarry(_, _, _, _)
AddCarry(a, b, k, carry) ==
    IF k > 8 THEN <<>>
    ELSE LET s == a[k] + b[k] + carry
         IN <<s % 256>> \o AddCarry(a, b, k + 1, s \div 256)

Add64(a, b) == AddCarry(a, b, 1, 0)

\* The sum of a[i] * b[k - i] over the byte positions of column k.
RECURSIVE MulColumn(_, _, _, _)
MulColumn(a, b, k, i) ==
    IF i > 7 \/ i > k THEN 0
    ELSE (IF k - i <= 7 THEN a[i + 1] * b[k - i + 1] ELSE 0)
         + MulColumn(a, b, k, i + 1)

RECURSIVE MulCarry(_, _, _, _)
MulCarry(a, b, k, carry) ==
    IF k > 15 THEN <<>>
    ELSE LET s == MulColumn(a, b, k, 0) + carry
         IN <<s % 256>> \o MulCarry(a, b, k + 1, s \div 256)

\* cn_umul128(a, b, &hi) with __SIZEOF_INT128__: r = (__uint128_t)a * b,
\* *hi = r >> 64, returns (uint64_t)r.
cn_umul128(a, b) ==
    LET r == MulCarry(a, b, 0, 0)
    IN [lo |-> Bytes(r, 0, 8), hi |-> Bytes(r, 8, 8)]

\* The low 24 bits of a 64-bit value (enough for every mask of gr_variants).
Low24(a) == a[1] + (256 * a[2]) + (65536 * a[3])

(* ------------------------------------------------------------------ *)
(* ghostrider_ffi.c: program constants.                                 *)
(* ------------------------------------------------------------------ *)

NUM_CORE_HASHES == 15

NUM_CN_VARIANTS == 6

HASH_BUF_SIZE == 64

\* The content of a slot of a local array that has not been assigned.
Uninit == 0 - 1

(* ------------------------------------------------------------------ *)
(* cryptonight.c / cryptonight.h: variants and the size of the model.   *)
(* ------------------------------------------------------------------ *)

CN_MAX_MEMORY == \h200000

CN_ITER == \h80000

\* gr_variants[v] is gr_variants[v + 1] here.
gr_variants ==
    << [memory |-> \h80000,  iterations |-> CN_ITER \div 4, mask |-> \h7FFF0,  half_mem |-> 0],
       [memory |-> \h80000,  iterations |-> CN_ITER \div 4, mask |-> \h3FFF0,  half_mem |-> 1],
       [memory |-> \h200000, iterations |-> CN_ITER \div 2, mask |-> \h1FFFF0, half_mem |-> 0],
       [memory |-> \h100000, iterations |-> CN_ITER \div 2, mask |-> \hFFFF0,  half_mem |-> 0],
       [memory |-> \h40000,  iterations |-> CN_ITER \div 8, mask |-> \h3FFF0,  half_mem |-> 0],
       [memory |-> \h40000,  iterations |-> CN_ITER \div 8, mask |-> \h1FFF0,  half_mem |-> 1] >>

\* if (variant < 0 || variant > 5)
ValidVariant(variant) == ~(variant < 0 \/ variant > 5)

\* The bytes one Explode fills: N * 16 with N = memory / 16, halved
\* for a half-memory variant (cryptonight.c:260-261).
FillOf(r) == IF r.half_mem # 0 THEN r.memory \div 2 ELSE r.memory

\* Explode and Implode move 8 blocks of 16 bytes at a time.
STRIDE == 128

\* All sizes of the engine are divided by Scale, which makes the smallest
\* region an Explode fills 2^LogUnit strides long. The ratios between
\* the variants' sizes, iteration counts and masks are those of the
\* table.
MinFill ==
    CHOOSE m \in {FillOf(gr_variants[v]) : v \in 1..NUM_CN_VARIANTS} :
        \A v \in 1..NUM_CN_VARIANTS : m <= FillOf(gr_variants[v])

Scale == MinFill \div (STRIDE * (2 ^ LogUnit))

VMemory(variant) == gr_variants[variant + 1].memory \div Scale

VIterations(variant) == gr_variants[variant + 1].iterations \div Scale

\* The mask taken to be the size less one.
VMaskBytes(variant) == (gr_variants[variant + 1].memory \div Scale) - 1

VMask(variant) == ((gr_variants[variant + 1].mask + 16) \div Scale) - 16

VHalfMem(variant) == gr_variants[variant + 1].half_mem # 0

\* The region taken to be the whole scratchpad of the variant.
VFillWhole(variant) == VMemory(variant)

\* N * 16 of cn_explode_scratchpad, at the scale of the model.
VFill(variant) == IF VHalfMem(variant) THEN VMemory(variant) \div 2 ELSE VMemory(variant)

\* posix_memalign(&ctx->memory, 16, CN_MAX_MEMORY)
MaxMemory == CN_MAX_MEMORY \div Scale

(* ------------------------------------------------------------------ *)
(* The hash functions of the sph and CryptoNote libraries, which the    *)
(* pipeline only calls. Each is replaced by a digest that is a function *)
(* of the algorithm, of the length and of every byte and its position.  *)
(* ------------------------------------------------------------------ *)

RECURSIVE Fold(_, _, _)
Fold(data, lo, hi) ==
    IF lo > hi THEN 0
    ELSE IF lo = hi THEN (((lo * 31) + 7) * (data[lo] + 1)) % 65521
    ELSE LET m == (lo + hi) \div 2
         IN (Fold(data, lo, m) + Fold(data, m + 1, hi)) % 65521

Digest(alg, data, len, outlen) ==
    LET h == (Fold(data, 1, len) + (977 * len) + (4099 * alg)) % 65521
    IN [j \in 1..outlen |->
           (((h % 251) + (3 * j)) * ((h \div 251) + (2 * j) + 1) + alg) % 256] \o <<>>

\* core_hashes[index](data, len, out): the 64 bytes written to out
core_hashes(index, data, len) == Digest(index, data, len, HASH_BUF_SIZE)

\* extra_hashes[k](state, 200, output): the 32 bytes written to output
extra_hashes(k, state, len) == Digest(NUM_CORE_HASHES + k, state, len, 32)

(* ------------------------------------------------------------------ *)
(* select_indices (ghostrider_ffi.c:177-197).                           *)
(* ------------------------------------------------------------------ *)

\* The nibbles taken high half first.
NibbleHighFirst(seed, i) ==
    (seed[(i \div 2) + 1] \div (IF i % 2 = 1 THEN 1 ELSE 16)) % 16

\* nibble = (seed[i / 2] >> ((i & 1) * 4)) & 0x0F
Nibble(seed, i) ==
    (seed[(i \div 2) + 1] \div (IF i % 2 = 1 THEN 16 ELSE 1)) % 16

\* uint8_t selected[16] = {0}; uint32_t k = 0; indices[] is the caller's
\* array, unassigned on entry.
SelStart(n) ==
    [selected |-> [j \in 1..16 |-> 0],
     indices  |-> [j \in 1..n |-> Uninit],
     k        |-> 0]

\* if (!selected[index]) { selected[index] = 1; indices[k++] = index; }
SelTake(r, index) ==
    IF r.selected[index + 1] = 0
    THEN [selected |-> [r.selected EXCEPT ![index + 1] = 1],
          indices  |-> [r.indices EXCEPT ![r.k + 1] = index],
          k        |-> r.k + 1]
    ELSE r

\* for (i = 0; i < 64 && k < n; i++) { index = nibble % n; ... }
RECURSIVE SelScan(_, _, _, _)
SelScan(n, seed, i, r) ==
    IF i < 64 /\ r.k < n
    THEN SelScan(n, seed, i + 1, SelTake(r, Nibble(seed, i) % n))
    ELSE r

\* for (i = 0; i < n && k < n; i++) if (!selected[i]) indices[k++] = i;
RECURSIVE SelFill(_, _, _)
SelFill(n, i, r) ==
    IF i < n /\ r.k < n
    THEN SelFill(n, i + 1,
                 IF r.selected[i + 1] = 0
                 THEN [r EXCEPT !.indices[r.k + 1] = i, !.k = r.k + 1]
                 ELSE r)
    ELSE r

\* The scan without the trailing fill loop.
select_indices_nofill(n, seed) ==
    SelScan(n, seed, 0, SelStart(n)).indices

select_indices(n, seed) ==
    SelFill(n, 0, SelScan(n, seed, 0, SelStart(n))).indices

\* The seeds of the checks: seed[i] = (a * i + b) % 256.
SeedOf(a, b) == [i \in 1..32 |-> (a * (i - 1) + b) % 256]

(* ------------------------------------------------------------------ *)
(* The state of the machine.                                            *)
(*   ctx[c]     the cn_ctx c: state, save_state, memory, first_half     *)
(*   call[c]    the locals of the call running on context c, with its   *)
(*              position pc                                             *)
(*   output[c]  the caller's 32-byte output buffer                      *)
(*   hist[c]    history: the calls made, what was read and written      *)
(*   results    history: header and digest of every completed           *)
(*              ghostrider_hash                                         *)
(*   ncalls     the number of hashes started                            *)
(* ------------------------------------------------------------------ *)

Ctxs == {1}

\* What posix_memalign leaves in the scratchpad is not defined: the
\* all-zero pattern and a non-zero one.
GarbageSeeds == {0, 1}

Garbage(g) == [j \in 1..MaxMemory |-> (g * ((7 * j) + 13)) % 256] \o <<>>

\* cn_alloc_ctx: calloc(1, sizeof(cn_ctx)), posix_memalign(&ctx->memory, ...)
CtxInit(g) ==
    [state |-> Zeros(200), save_state |-> Zeros(128),
     memory |-> Garbage(g), first_half |-> 0]

\* No context allocated.
NoCtx == [state |-> <<>>, save_state |-> <<>>, memory |-> <<>>, first_half |-> 0]

\* The caller's output buffer before the call.
OutInit == [j \in 1..32 |-> \hEE] \o <<>>

\* cryptonight_hash is a void function.
Void == "void"

\* No value has been returned yet.
Pending == 0 + 1

NoArgs == [input_null |-> TRUE, input |-> <<>>, input_len |-> 0,
           output_null |-> TRUE, ctx_null |-> TRUE]

Idle ==
    [pc |-> "idle",
     \* ghostrider_hash
     args |-> NoArgs, core_indices |-> <<>>, cn_indices |-> <<>>,
     tmp |-> <<>>, data |-> "input", data_size |-> 0, part |-> 0, i |-> 0,
     \* cryptonight_hash
     cn_input |-> <<>>, cn_size |-> 0, variant |-> 0, ret |-> "direct",
     tweak1_2 |-> <<>>, al0 |-> <<>>, ah0 |-> <<>>, idx0 |-> <<>>,
     bx0_lo |-> <<>>, bx0_hi |-> <<>>, it |-> 0,
     \* cn_explode_scratchpad
     ex_rk |-> <<>>, ex_N |-> 0, blocks |-> <<>>, out |-> 0, ex_i |-> 0,
     after |-> "main_init",
     \* cn_implode_scratchpad
     im_rk |-> <<>>, im_N |-> 0, xout |-> <<>>, inp |-> 0, im_i |-> 0,
     pass |-> 0, num_passes |-> 0]

NoTaint == [fields |-> {}, chunks |-> {}]

\* The work of an engine call so far: strides of cn_explode_scratchpad,
\* iterations of the main loop, strides of cn_implode_scratchpad, and
\* steps of any kind.
NoWork == [fill |-> 0, iters |-> 0, drain |-> 0, steps |-> 0]

HistInit ==
    [log |-> <<>>, args |-> NoArgs, rc |-> Pending,
     cn_variant |-> 0, cn_ret |-> "none",
     fresh |-> NoTaint, stale |-> NoTaint, touched |-> {},
     fill0 |-> <<>>, refilled |-> FALSE, fault |-> FALSE,
     work |-> NoWork, acc |-> <<>>]

\* The 16-byte chunks of the scratchpad that a read of n bytes at off
\* looks at, and those that a write of n bytes at off replaces entirely.
ChunksRead(off, n) == (off \div 16)..((off + n - 1) \div 16)

ChunksWritten(off, n) ==
    {q \in ChunksRead(off, n) : 16 * q >= off /\ (16 * q) + 16 <= off + n}

\* A read of what this engine call has not written yet is recorded in
\* stale; a write makes its target fresh.
\* Every access to the half-memory fields of the context is recorded in
\* acc, in order.
HalfFields == {"first_half", "save_state"}

HAccess(acc, op, fields) ==
    IF fields \cap HalfFields = {} THEN acc
    ELSE Append(acc, [op |-> op, fields |-> fields \cap HalfFields])

HRead(h, fields, chunks) ==
    [h EXCEPT !.stale = [fields |-> @.fields \cup (fields \ h.fresh.fields),
                         chunks |-> @.chunks \cup (chunks \ h.fresh.chunks)],
              !.acc = HAccess(@, "read", fields)]

HWrite(h, fields, chunks) ==
    [h EXCEPT !.fresh = [fields |-> @.fields \cup fields,
                         chunks |-> @.chunks \cup chunks],
              !.acc = HAccess(@, "write", fields)]

\* The positions of a call inside cryptonight_hash.
CnPcs ==
    {"cn_enter", "ex_begin", "ex_stride", "ex_end", "main_init", "main_iter",
     "im_begin", "im_pass", "im_loop", "im_end", "cn_final"}

\* A step taken from position pc is a step of the engine call or not.
HStep(h, pc) ==
    IF pc \in CnPcs THEN [h EXCEPT !.work.steps = @ + 1] ELSE h

\* The engine call begins: nothing of the context is fresh.
HEnter(h, variant, input, size) ==
    [h EXCEPT !.log = Append(@, [kind |-> "cn", index |-> variant,
                                 in |-> Bytes(input, 0, size), len |-> size,
                                 out |-> <<>>]),
              !.cn_variant = variant, !.cn_ret = "running",
              !.fresh = NoTaint, !.stale = NoTaint, !.touched = {},
              !.fill0 = <<>>, !.refilled = FALSE,
              !.work = NoWork, !.acc = <<>>]

\* The engine call returns, having written digest to the output buffer.
HLeave(h, digest) ==
    [h EXCEPT !.log[Len(h.log)].out = digest, !.cn_ret = Void, !.touched = {}]

(* ------------------------------------------------------------------ *)
(* cryptonight.c: the engine, one action per step of cryptonight_hash,  *)
(* cn_explode_scratchpad and cn_implode_scratchpad. The operator XOf of *)
(* an action X is what the step makes of the call's locals k, of the    *)
(* context x, of the output buffer o and of the history h.              *)
(* ------------------------------------------------------------------ *)

\* The 8 working blocks laid out as memcpy(out + 16 * b, blocks[b], 16).
Flat(blocks) ==
    blocks[1] \o blocks[2] \o blocks[3] \o blocks[4]
    \o blocks[5] \o blocks[6] \o blocks[7] \o blocks[8]

\* memcpy(blocks, p, 128) into uint8_t blocks[8][16]
Blocks8(p) == [b \in 1..8 |-> Bytes(p, 16 * (b - 1), 16)] \o <<>>

\* The locals of ghostrider_hash, which outlive the engine call it makes.
GrFrame(k) ==
    [Idle EXCEPT !.args = k.args, !.core_indices = k.core_indices,
                 !.cn_indices = k.cn_indices, !.tmp = k.tmp, !.data = k.data,
                 !.data_size = k.data_size, !.part = k.part, !.i = k.i,
                 !.ret = k.ret]

\* cryptonight_hash returns to its caller.
CnReturn(k) ==
    IF k.ret = "gr" THEN [GrFrame(k) EXCEPT !.pc = "gr_part_end"] ELSE Idle

\* The step that writes what it leaves into every context, as it would if
\* the contexts shared their buffers.
MoveShared(c, r) ==
    /\ ctx' = [d \in DOMAIN ctx |-> r.ctx]
    /\ call' = [call EXCEPT ![c] = r.call]
    /\ output' = [output EXCEPT ![c] = r.output]
    /\ hist' = [hist EXCEPT ![c] = HStep(r.hist, call[c].pc)]

\* Context c, its call, its output buffer and its history become r.
Move(c, r) ==
    /\ ctx' = [ctx EXCEPT ![c] = r.ctx]
    /\ call' = [call EXCEPT ![c] = r.call]
    /\ output' = [output EXCEPT ![c] = r.output]
    /\ hist' = [hist EXCEPT ![c] = HStep(r.hist, call[c].pc)]

\* The step of context c that leaves r.
Step(c, r) ==
    /\ Move(c, r)
    /\ UNCHANGED <<sel, results, ncalls, aux>>

\* N without the halving.
BlocksOfWhole(variant) == VMemory(variant) \div 16

\* N = v->memory / 16; if (v->half_mem) N /= 2;
BlocksOf(variant) ==
    IF VHalfMem(variant) THEN (VMemory(variant) \div 16) \div 2
    ELSE VMemory(variant) \div 16

\* cryptonight_hash without the assignment to first_half.
FirstHalfKept(variant, first_half) == first_half

\* if (v->half_mem) ctx->first_half = 1;
FirstHalfAtEntry(variant, first_half) ==
    IF VHalfMem(variant) THEN 1 ELSE first_half

\* The tweak taken from the head of the input.
TweakSourceAtStart(input) == Bytes(input, 0, 8)

\* memcpy(&tweak1_2, input + 35, 8)
TweakSource(input) == Bytes(input, 35, 8)

\* cryptonight_hash up to the call of cn_explode_scratchpad
\* (cryptonight.c:437-461).
CnEnterOf(k, x, o, h) ==
    IF ~ValidVariant(k.variant)
    THEN [ctx |-> x, call |-> CnReturn(k), output |-> Zeros(32),
          hist |-> HLeave(h, Zeros(32))]
    ELSE LET state == gr_keccak(k.cn_input, k.cn_size, 200)
             tweak == XorBytes(TweakSource(k.cn_input), Bytes(state, 192, 8))
             first == FirstHalfAtEntry(k.variant, x.first_half)
         IN [ctx    |-> [x EXCEPT !.state = state, !.first_half = first],
             call   |-> [k EXCEPT !.pc = "ex_begin", !.tweak1_2 = tweak,
                                  !.after = "main_init"],
             output |-> o,
             hist   |-> HWrite(HRead(HWrite(h, {"state"}, {}), {"state"}, {}),
                               IF VHalfMem(k.variant) THEN {"first_half"} ELSE {}, {})]

CnEnter(c) ==
    /\ call[c].pc = "cn_enter"
    /\ Step(c, CnEnterOf(call[c], ctx[c], output[c], hist[c]))

\* The Explode that always starts from state + 64.
ExplodeNeverRestores(variant, first_half) == FALSE

\* if (v->half_mem && !ctx->first_half) memcpy(blocks, ctx->save_state, 128);
\* else memcpy(blocks, ctx->state + 64, 128);
ExplodeRestores(variant, first_half) == VHalfMem(variant) /\ first_half = 0

\* cn_explode_scratchpad before its loop (cryptonight.c:256-273).
ExplodeBeginOf(k, x, o, h) ==
    LET half    == VHalfMem(k.variant)
        N       == BlocksOf(k.variant)
        restore == ExplodeRestores(k.variant, x.first_half)
        blocks  == IF restore THEN Blocks8(x.save_state)
                   ELSE Blocks8(Bytes(x.state, 64, 128))
        h1      == HRead(h, {"state"} \cup (IF half THEN {"first_half"} ELSE {})
                            \cup (IF restore THEN {"save_state"} ELSE {}), {})
    IN [ctx    |-> x,
        call   |-> [k EXCEPT !.pc = IF 0 < N THEN "ex_stride" ELSE "ex_end",
                             !.ex_rk = cn_aes_genkey(Bytes(x.state, 0, 32)),
                             !.ex_N = N, !.blocks = blocks, !.out = 0, !.ex_i = 0],
        output |-> o,
        hist   |-> [h1 EXCEPT !.touched = {},
                              !.fill0 = IF h.fill0 = <<>>
                                        THEN <<Bytes(x.state, 0, 32), blocks>>
                                        ELSE @]]

ExplodeBegin(c) ==
    /\ call[c].pc = "ex_begin"
    /\ Step(c, ExplodeBeginOf(call[c], ctx[c], output[c], hist[c]))

\* One turn of the loop of cn_explode_scratchpad (cryptonight.c:275-289).
\* A store outside the allocation is undefined: the call is then at
\* "fault", where the model follows it no further.
ExplodeStrideOf(k, x, o, h) ==
    LET blocks == [b \in 1..8 |-> cn_aes_10rounds(k.blocks[b], k.ex_rk)] \o <<>>
        inside == k.out + STRIDE <= MaxMemory
    IN [ctx    |-> [x EXCEPT !.memory = IF inside THEN Store(@, k.out, Flat(blocks))
                                        ELSE @],
        call   |-> [k EXCEPT !.blocks = blocks, !.out = @ + STRIDE, !.ex_i = @ + 8,
                             !.pc = IF ~inside THEN "fault"
                                    ELSE IF k.ex_i + 8 < k.ex_N THEN "ex_stride"
                                    ELSE "ex_end"],
        output |-> o,
        hist   |-> [HWrite(h, {}, ChunksWritten(k.out, STRIDE))
                       EXCEPT !.touched = {k.out + (16 * b) : b \in 0..7},
                              !.fault = ~inside,
                              !.work.fill = @ + 1]]

ExplodeStride(c) ==
    /\ call[c].pc = "ex_stride"
    /\ call[c].ex_i < call[c].ex_N
    /\ Step(c, ExplodeStrideOf(call[c], ctx[c], output[c], hist[c]))

\* The save at the end of both fills of a half-memory variant.
ExplodeSavesBothFills(variant, first_half) == VHalfMem(variant)

\* if (v->half_mem && ctx->first_half) memcpy(ctx->save_state, blocks, 128);
ExplodeSaves(variant, first_half) == VHalfMem(variant) /\ first_half # 0

\* cn_explode_scratchpad after its loop (cryptonight.c:291-294), and the
\* return to cryptonight_hash or to cn_implode_scratchpad.
ExplodeEndOf(k, x, o, h) ==
    LET save == ExplodeSaves(k.variant, x.first_half)
    IN [ctx    |-> [x EXCEPT !.save_state = IF save THEN Flat(k.blocks) ELSE @],
        call   |-> [k EXCEPT !.pc = k.after],
        output |-> o,
        hist   |-> [HWrite(HRead(h, IF VHalfMem(k.variant) THEN {"first_half"} ELSE {}, {}),
                           IF save THEN {"save_state"} ELSE {}, {})
                       EXCEPT !.touched = {},
                              !.refilled = (k.after = "im_loop")]]

ExplodeEnd(c) ==
    /\ call[c].pc = "ex_end"
    /\ Step(c, ExplodeEndOf(call[c], ctx[c], output[c], hist[c]))

\* cryptonight_hash between the Explode and the main loop
\* (cryptonight.c:463-474): h = (uint64_t *)ctx->state.
MainInitOf(k, x, o, h) ==
    LET lane(n) == Bytes(x.state, 8 * n, 8)
        al0 == XorBytes(lane(0), lane(4))
    IN [ctx    |-> x,
        call   |-> [k EXCEPT !.pc = IF 0 < VIterations(k.variant) THEN "main_iter"
                                    ELSE "im_begin",
                             !.al0 = al0,
                             !.ah0 = XorBytes(lane(1), lane(5)),
                             !.idx0 = al0,
                             !.bx0_lo = XorBytes(lane(2), lane(6)),
                             !.bx0_hi = XorBytes(lane(3), lane(7)),
                             !.it = 0],
        output |-> o,
        hist   |-> [HRead(h, {"state"}, {}) EXCEPT !.touched = {}]]

MainInit(c) ==
    /\ call[c].pc = "main_init"
    /\ Step(c, MainInitOf(call[c], ctx[c], output[c], hist[c]))

\* VARIANT1_1: tmp = store_bytes[3];
\* index = (((tmp >> 3) & 6) | (tmp & 1)) << 1;
\* store_bytes[3] = tmp ^ ((0x75310 >> index) & 0x30)
Tweak11(tmp) ==
    LET index == ByteOr(ByteAnd(tmp \div 8, 6), ByteAnd(tmp, 1)) * 2
    IN ByteXor(tmp, ByteAnd((\h75310 \div (2 ^ index)) % 256, \h30))

\* idx0 & mask, with uint32_t mask
Masked(idx0, mask) ==
    BitAnd(Low24(idx0), mask % 16777216)
    + (16777216 * BitAnd(idx0[4], mask \div 16777216))

\* The product taken of the low accumulator.
MulOperandAccumulator(al0, cx) == al0

\* lo_mul = cn_umul128(idx0, cl, &hi_mul), after memcpy(&idx0, cx, 8):
\* the first operand of the product.
MulOperand(al0, cx) == Bytes(cx, 0, 8)

\* The read of the new address taken from the scratchpad as it was before
\* the store to the old address.
ReadNewStale(mem0, mem1, o2) == Bytes(mem0, o2, 16)

\* memcpy(&cl, &l[idx0 & mask], 8); memcpy(&ch, &l[(idx0 & mask) + 8], 8),
\* which follow the two memcpy to the old address: the read is of mem1,
\* the scratchpad that the store has left, mem0 being the one before it.
ReadNew(mem0, mem1, o2) == Bytes(mem1, o2, 16)

\* The tweak XORed into the low half as well.
TweakedStoreBoth(al1, ah1, tweak1_2) ==
    XorBytes(al1, tweak1_2) \o XorBytes(ah1, tweak1_2)

\* memcpy(&l[idx0 & mask], &al0, 8); store_ah = ah0 ^ tweak1_2;
\* memcpy(&l[(idx0 & mask) + 8], &store_ah, 8): the 16 bytes stored.
TweakedStore(al1, ah1, tweak1_2) == al1 \o XorBytes(ah1, tweak1_2)

\* The second access of an iteration (cryptonight.c:506-532), at
\* o2 = idx1 & mask of the scratchpad mem1 that the first access left:
\* cl, ch = the 16 bytes there; lo = cn_umul128(idx1, cl, &hi); al0 += hi;
\* ah0 += lo; the store of al0 and ah0 ^ tweak1_2; al0 ^= cl; ah0 ^= ch.
MainMulOf(k, x, o, h, o1, cx, mem1, o2) ==
    LET cl  == Bytes(ReadNew(x.memory, mem1, o2), 0, 8)
        mul == cn_umul128(MulOperand(k.al0, cx), cl)
        al1 == Add64(k.al0, mul.hi)
        ah1 == Add64(k.ah0, mul.lo)
        al2 == XorBytes(al1, cl)
        h1  == HWrite(HRead(h, {}, ChunksRead(o1, 16)), {}, ChunksWritten(o1, 16))
    IN IF o2 + 16 <= MaxMemory
       THEN [ctx    |-> [x EXCEPT !.memory =
                            Store(mem1, o2, TweakedStore(al1, ah1, k.tweak1_2))],
             call   |-> [k EXCEPT !.al0 = al2,
                                  !.ah0 = XorBytes(ah1, Bytes(ReadNew(x.memory, mem1, o2),
                                                              8, 8)),
                                  !.idx0 = al2,
                                  !.bx0_lo = Bytes(cx, 0, 8),
                                  !.bx0_hi = Bytes(cx, 8, 8),
                                  !.it = @ + 1,
                                  !.pc = IF k.it + 1 < VIterations(k.variant)
                                         THEN "main_iter" ELSE "im_begin"],
             output |-> o,
             hist   |-> [HWrite(HRead(h1, {}, ChunksRead(o2, 16)),
                                {}, ChunksWritten(o2, 16))
                            EXCEPT !.touched = {o1, o2},
                                   !.work.iters = @ + 1]]
       ELSE [ctx    |-> x,
             call   |-> [k EXCEPT !.pc = "fault"],
             output |-> o,
             hist   |-> [h EXCEPT !.touched = {o1, o2}, !.fault = TRUE]]

\* The stored block with the tweak applied to byte 3 of its low half.
StoreBlockTweaksLow(bx0_lo, bx0_hi, cx) ==
    [XorBytes(bx0_lo, Bytes(cx, 0, 8)) EXCEPT ![4] = Tweak11(@)]
        \o XorBytes(bx0_hi, Bytes(cx, 8, 8))

\* store_lo = bx0_lo ^ cx_lo; store_hi = bx0_hi ^ cx_hi, with byte 3 of
\* store_hi tweaked: the 16 bytes that the two memcpy store
\* (cryptonight.c:485-501).
StoreBlock(bx0_lo, bx0_hi, cx) ==
    XorBytes(bx0_lo, Bytes(cx, 0, 8))
        \o [XorBytes(bx0_hi, Bytes(cx, 8, 8)) EXCEPT ![4] = Tweak11(@)]

\* The store of the first access (cryptonight.c:483-504), given the block
\* cx that the AES round made: bx0 ^ cx, with the VARIANT1_1 tweak of
\* byte 11, goes to o1; idx1 = cx.lo.
MainStoreOf(k, x, o, h, o1, cx) ==
    MainMulOf(k, x, o, h, o1, cx,
              Store(x.memory, o1, StoreBlock(k.bx0_lo, k.bx0_hi, cx)),
              Masked(Bytes(cx, 0, 8), VMask(k.variant)))

\* The first access of an iteration (cryptonight.c:476-481), at
\* o1 = idx0 & mask: cx = cn_aes_round(memory[o1], ax0).
MainAesOf(k, x, o, h, o1) ==
    IF o1 + 16 <= MaxMemory
    THEN MainStoreOf(k, x, o, h, o1,
                     cn_aes_round_to(Bytes(x.memory, o1, 16), k.al0 \o k.ah0))
    ELSE [ctx    |-> x,
          call   |-> [k EXCEPT !.pc = "fault"],
          output |-> o,
          hist   |-> [h EXCEPT !.touched = {o1}, !.fault = TRUE]]

\* One iteration of the main loop (cryptonight.c:475-533). An access
\* outside the allocation is undefined: the call is then at "fault".
MainIterOf(k, x, o, h) ==
    MainAesOf(k, x, o, h, Masked(k.idx0, VMask(k.variant)))

MainIter(c) ==
    /\ call[c].pc = "main_iter"
    /\ call[c].it < VIterations(call[c].variant)
    /\ Step(c, MainIterOf(call[c], ctx[c], output[c], hist[c]))

\* The drain that makes one pass whatever the variant.
ImplodeOnePass(variant) == 1

\* int num_passes = v->half_mem ? 2 : 1;
ImplodePasses(variant) == IF VHalfMem(variant) THEN 2 ELSE 1

\* cn_implode_scratchpad before its loops (cryptonight.c:306-320).
ImplodeBeginOf(k, x, o, h) ==
    [ctx    |-> x,
     call   |-> [k EXCEPT !.pc = "im_pass",
                          !.im_rk = cn_aes_genkey(Bytes(x.state, 32, 32)),
                          !.im_N = BlocksOf(k.variant),
                          !.xout = Blocks8(Bytes(x.state, 64, 128)),
                          !.inp = 0, !.pass = 0,
                          !.num_passes = ImplodePasses(k.variant)],
     output |-> o,
     hist   |-> [HRead(h, {"state"}, {}) EXCEPT !.touched = {}]]

ImplodeBegin(c) ==
    /\ call[c].pc = "im_begin"
    /\ Step(c, ImplodeBeginOf(call[c], ctx[c], output[c], hist[c]))

\* The refill at the head of every pass of a half-memory variant.
ImplodeRefillsEveryPass(variant, pass) == VHalfMem(variant)

\* if (v->half_mem && pass == 1)
ImplodeRefills(variant, pass) == VHalfMem(variant) /\ pass = 1

\* The head of one pass of cn_implode_scratchpad (cryptonight.c:321-327):
\* the second pass of a half-memory variant calls cn_explode_scratchpad.
ImplodePassOf(k, x, o, h) ==
    LET refill == ImplodeRefills(k.variant, k.pass)
    IN [ctx    |-> [x EXCEPT !.first_half = IF refill THEN 0 ELSE @],
        call   |-> [k EXCEPT !.inp = IF refill THEN 0 ELSE @,
                             !.im_i = 0,
                             !.after = "im_loop",
                             !.pc = IF refill THEN "ex_begin" ELSE "im_loop"],
        output |-> o,
        hist   |-> [HWrite(h, IF refill THEN {"first_half"} ELSE {}, {})
                       EXCEPT !.touched = {}]]

ImplodePass(c) ==
    /\ call[c].pc = "im_pass"
    /\ call[c].pass < call[c].num_passes
    /\ Step(c, ImplodePassOf(call[c], ctx[c], output[c], hist[c]))

\* One turn of the inner loop of cn_implode_scratchpad
\* (cryptonight.c:329-343), and the end of the pass with its last turn.
ImplodeStrideOf(k, x, o, h) ==
    LET inside == k.inp + STRIDE <= MaxMemory
        xored  == [b \in 1..8 |->
                      XorBytes(k.xout[b], Bytes(x.memory, k.inp + (16 * (b - 1)), 16))]
        xout   == [b \in 1..8 |-> cn_aes_10rounds(xored[b], k.im_rk)] \o <<>>
        last   == ~(k.im_i + 8 < k.im_N)
    IN [ctx    |-> x,
        call   |-> IF inside
                   THEN [k EXCEPT !.xout = xout, !.inp = @ + STRIDE, !.im_i = @ + 8,
                                  !.pass = IF last THEN @ + 1 ELSE @,
                                  !.pc = IF ~last THEN "im_loop"
                                         ELSE IF k.pass + 1 < k.num_passes THEN "im_pass"
                                         ELSE "im_end"]
                   ELSE [k EXCEPT !.pc = "fault"],
        output |-> o,
        hist   |-> [HRead(h, {}, ChunksRead(k.inp, STRIDE))
                       EXCEPT !.touched = {k.inp + (16 * b) : b \in 0..7},
                              !.refilled = FALSE,
                              !.fault = ~inside,
                              !.work.drain = @ + 1]]

ImplodeStride(c) ==
    /\ call[c].pc = "im_loop"
    /\ call[c].im_i < call[c].im_N
    /\ Step(c, ImplodeStrideOf(call[c], ctx[c], output[c], hist[c]))

\* The end of the drain that copies xout to the head of the state.
ImplodeEndAtHead(k, x, o, h) ==
    [ctx    |-> [x EXCEPT !.state = Store(@, 0, Flat(k.xout))],
     call   |-> [k EXCEPT !.pc = "cn_final"],
     output |-> o,
     hist   |-> [h EXCEPT !.touched = {}]]

\* memcpy(ctx->state + 64, xout, 128) (cryptonight.c:346-347)
ImplodeEndOf(k, x, o, h) ==
    [ctx    |-> [x EXCEPT !.state = Store(@, 64, Flat(k.xout))],
     call   |-> [k EXCEPT !.pc = "cn_final"],
     output |-> o,
     hist   |-> [h EXCEPT !.touched = {}]]

ImplodeEnd(c) ==
    /\ call[c].pc = "im_end"
    /\ Step(c, ImplodeEndOf(call[c], ctx[c], output[c], hist[c]))

\* gr_keccakf and the extra hash (cryptonight.c:538-543), and the return.
CnFinalOf(k, x, o, h) ==
    LET state  == gr_keccakf(x.state, KECCAK_ROUNDS)
        digest == extra_hashes(ByteAnd(state[1], 3), state, 200)
    IN [ctx    |-> [x EXCEPT !.state = state],
        call   |-> CnReturn(k),
        output |-> digest,
        hist   |-> HLeave(HWrite(HRead(h, {"state"}, {}), {"state"}, {}), digest)]

CnFinal(c) ==
    /\ call[c].pc = "cn_final"
    /\ Step(c, CnFinalOf(call[c], ctx[c], output[c], hist[c]))

\* What the step of cryptonight_hash at the position of k leaves.
CnStepOf(k, x, o, h) ==
    CASE k.pc = "cn_enter" -> CnEnterOf(k, x, o, h)
      [] k.pc = "ex_begin" -> ExplodeBeginOf(k, x, o, h)
      [] k.pc = "ex_stride" -> ExplodeStrideOf(k, x, o, h)
      [] k.pc = "ex_end" -> ExplodeEndOf(k, x, o, h)
      [] k.pc = "main_init" -> MainInitOf(k, x, o, h)
      [] k.pc = "main_iter" -> MainIterOf(k, x, o, h)
      [] k.pc = "im_begin" -> ImplodeBeginOf(k, x, o, h)
      [] k.pc = "im_pass" -> ImplodePassOf(k, x, o, h)
      [] k.pc = "im_loop" -> ImplodeStrideOf(k, x, o, h)
      [] k.pc = "im_end" -> ImplodeEndOf(k, x, o, h)
      [] k.pc = "cn_final" -> CnFinalOf(k, x, o, h)

\* cryptonight_hash run from r to its return with no other call in
\* between.
RECURSIVE CnRun(_)
CnRun(r) ==
    IF r.call.pc \in {"idle", "fault"} THEN r
    ELSE CnRun(CnStepOf(r.call, r.ctx, r.output, r.hist))

\* The steps of the engine on context c.
CnStep(c) ==
    \/ CnEnter(c)
    \/ ExplodeBegin(c)
    \/ ExplodeStride(c)
    \/ ExplodeEnd(c)
    \/ MainInit(c)
    \/ MainIter(c)
    \/ ImplodeBegin(c)
    \/ ImplodePass(c)
    \/ ImplodeStride(c)
    \/ ImplodeEnd(c)
    \/ CnFinal(c)

(* ------------------------------------------------------------------ *)
(* ghostrider_ffi.c: ghostrider_hash (ghostrider_ffi.c:213-256), one    *)
(* action per call it makes.                                            *)
(* ------------------------------------------------------------------ *)

\* The check with the bound of the length off by one.
GrRejectsUpTo43(a) ==
    a.input_null \/ a.output_null \/ a.ctx_null \/ a.input_len <= 43

\* if (!input || !output || !ctx || input_len < 43) return -1;
GrRejects(a) == a.input_null \/ a.output_null \/ a.ctx_null \/ a.input_len < 43

\* The index without the offset of the part.
CoreIndexInPart(core_indices, part, i) == core_indices[i + 1]

\* core_indices[part * 5 + i]
CoreIndexAt(core_indices, part, i) == core_indices[(part * 5) + i + 1]

\* The copy without the memset.
NextPartInputUnpadded(tmp, o) == Store(tmp, 0, Bytes(o, 0, 32))

\* memcpy(tmp, output, 32); memset(tmp + 32, 0, 32);
NextPartInput(tmp, o) == Store(Store(tmp, 0, Bytes(o, 0, 32)), 32, Zeros(32))

\* The loop with two parts.
LastPartOfTwo(part) == ~(part + 1 < 2)

\* for (int part = 0; part < 3; part++): part is the last one
LastPart(part) == ~(part + 1 < 3)

\* The seed taken from the head of the header.
GrSeedFromStart(input) == Bytes(input, 0, 32)

\* const uint8_t *seed = input + 4;
GrSeed(input) == Bytes(input, 4, 32)

\* The variant of the first part in every part.
CnIndexOfFirstPart(cn_indices, part) == cn_indices[1]

\* (int)cn_indices[part]
CnIndexAt(cn_indices, part) == cn_indices[part + 1]

\* ghostrider_hash that clears the output buffer before it refuses.
GrCallClearing(k, x, o, h, a) ==
    IF GrRejects(a)
    THEN [ctx |-> x, call |-> Idle, output |-> Zeros(32),
          hist |-> [h EXCEPT !.args = a, !.rc = 0 - 1]]
    ELSE [ctx    |-> x,
          call   |-> [Idle EXCEPT
                         !.pc = "gr_core", !.args = a,
                         !.core_indices = select_indices(NUM_CORE_HASHES, GrSeed(a.input)),
                         !.cn_indices = select_indices(NUM_CN_VARIANTS, GrSeed(a.input)),
                         !.tmp = [j \in 1..HASH_BUF_SIZE |-> Uninit] \o <<>>,
                         !.data = "input", !.data_size = a.input_len,
                         !.part = 0, !.i = 0, !.ret = "gr"],
          output |-> o,
          hist   |-> [h EXCEPT !.args = a, !.rc = Pending, !.log = <<>>]]

\* ghostrider_hash up to its loop (ghostrider_ffi.c:213-231).
GrCallOf(k, x, o, h, a) ==
    IF GrRejects(a)
    THEN [ctx |-> x, call |-> Idle, output |-> o,
          hist |-> [h EXCEPT !.args = a, !.rc = 0 - 1]]
    ELSE LET seed == GrSeed(a.input)
         IN [ctx    |-> x,
             call   |-> [Idle EXCEPT
                            !.pc = "gr_core", !.args = a,
                            !.core_indices = select_indices(NUM_CORE_HASHES, seed),
                            !.cn_indices = select_indices(NUM_CN_VARIANTS, seed),
                            !.tmp = [j \in 1..HASH_BUF_SIZE |-> Uninit] \o <<>>,
                            !.data = "input", !.data_size = a.input_len,
                            !.part = 0, !.i = 0, !.ret = "gr"],
             output |-> o,
             hist   |-> [h EXCEPT !.args = a, !.rc = Pending, !.log = <<>>]]

GrCall(c, a) ==
    /\ call[c].pc = "idle"
    /\ ncalls < MaxCalls
    /\ Move(c, GrCallOf(call[c], ctx[c], output[c], hist[c], a))
    /\ ncalls' = IF GrRejects(a) THEN ncalls ELSE ncalls + 1
    /\ UNCHANGED <<sel, results, aux>>

\* One core hash of the chain (ghostrider_ffi.c:236-242).
GrCoreOf(k, x, o, h) ==
    LET data  == IF k.data = "input" THEN k.args.input ELSE k.tmp
        index == CoreIndexAt(k.core_indices, k.part, k.i)
        next  == core_hashes(index, data, k.data_size)
    IN [ctx    |-> x,
        call   |-> [k EXCEPT !.tmp = next, !.data = "tmp",
                             !.data_size = HASH_BUF_SIZE, !.i = @ + 1,
                             !.pc = IF k.i + 1 < 5 THEN "gr_core" ELSE "gr_cn"],
        output |-> o,
        hist   |-> [h EXCEPT !.log = Append(@, [kind |-> "core", index |-> index,
                                               in |-> Bytes(data, 0, k.data_size),
                                               len |-> k.data_size, out |-> next])]]

GrCore(c) ==
    /\ call[c].pc = "gr_core"
    /\ call[c].i < 5
    /\ Step(c, GrCoreOf(call[c], ctx[c], output[c], hist[c]))

\* cryptonight_hash(tmp, HASH_BUF_SIZE, output, ctx, (int)cn_indices[part])
\* is called (ghostrider_ffi.c:245-246).
GrCnOf(k, x, o, h) ==
    LET variant == CnIndexAt(k.cn_indices, k.part)
    IN [ctx    |-> x,
        call   |-> [k EXCEPT !.pc = "cn_enter", !.cn_input = k.tmp,
                             !.cn_size = HASH_BUF_SIZE, !.variant = variant],
        output |-> o,
        hist   |-> HEnter(h, variant, k.tmp, HASH_BUF_SIZE)]

GrCn(c) ==
    /\ call[c].pc = "gr_cn"
    /\ Step(c, GrCnOf(call[c], ctx[c], output[c], hist[c]))

\* The end of one part (ghostrider_ffi.c:248-252), and return 0 after the
\* last one.
GrPartEndOf(k, x, o, h) ==
    [ctx    |-> x,
     call   |-> IF LastPart(k.part) THEN Idle
                ELSE [k EXCEPT !.tmp = NextPartInput(k.tmp, o), !.data = "tmp",
                               !.data_size = HASH_BUF_SIZE, !.part = @ + 1,
                               !.i = 0, !.pc = "gr_core"],
     output |-> o,
     hist   |-> IF LastPart(k.part) THEN [h EXCEPT !.rc = 0] ELSE h]

GrPartEnd(c) ==
    /\ call[c].pc = "gr_part_end"
    /\ Move(c, GrPartEndOf(call[c], ctx[c], output[c], hist[c]))
    /\ results' = IF LastPart(call[c].part)
                  THEN results \cup {[input |-> call[c].args.input,
                                      output |-> output[c]]}
                  ELSE results
    /\ UNCHANGED <<sel, ncalls, aux>>

(* ------------------------------------------------------------------ *)
(* ghostrider_ffi.c: ghostrider_sph_hash (ghostrider_ffi.c:260-268).    *)
(* ------------------------------------------------------------------ *)

\* The caller's 64-byte output buffer before the first call.
SphOutInit == [j \in 1..HASH_BUF_SIZE |-> \hEE] \o <<>>

\* No call yet: args are those of the last call, out is the caller's
\* buffer and prev what it held before that call, rc what the call
\* returned, invoked the primitives it ran.
SphIdle ==
    [args |-> [algo_index |-> 0, input_null |-> TRUE, input |-> <<>>,
               input_len |-> 0, output_null |-> TRUE],
     out |-> SphOutInit, prev |-> SphOutInit, rc |-> Pending,
     invoked |-> <<>>, calls |-> 0]

\* The check that lets index 15 through.
SphRejectsAbove15(a) ==
    a.algo_index < 0 \/ a.algo_index > NUM_CORE_HASHES
        \/ a.input_null \/ a.output_null

\* if (algo_index < 0 || algo_index >= NUM_CORE_HASHES || !input || !output)
SphRejects(a) ==
    a.algo_index < 0 \/ a.algo_index >= NUM_CORE_HASHES
        \/ a.input_null \/ a.output_null

\* ghostrider_sph_hash(algo_index, input, input_len, output)
SphHashOf(s, a) ==
    IF SphRejects(a)
    THEN [s EXCEPT !.args = a, !.prev = s.out, !.rc = 0 - 1,
                   !.invoked = <<>>, !.calls = @ + 1]
    ELSE [s EXCEPT !.args = a, !.prev = s.out, !.rc = 0,
                   !.out = core_hashes(a.algo_index, a.input, a.input_len),
                   !.invoked = <<[index |-> a.algo_index, in |-> a.input,
                                  len |-> a.input_len]>>,
                   !.calls = @ + 1]

ghostrider_sph_hash(a) ==
    /\ sph.calls < MaxSphCalls
    /\ sph' = SphHashOf(sph, a)
    /\ UNCHANGED <<sel, ctx, call, output, hist, results, ncalls, heap, unit>>

(* ------------------------------------------------------------------ *)
(* cryptonight.c: cn_alloc_ctx and cn_free_ctx (cryptonight.c:407-433), *)
(* which ghostrider_alloc_ctx and ghostrider_free_ctx call              *)
(* (ghostrider_ffi.c:201-209). The heap is the set of the live context  *)
(* structs and that of the live scratchpads; a pointer is the number of *)
(* its block, and NULL is 0.                                            *)
(* ------------------------------------------------------------------ *)

NULL == 0

\* The two builds of cryptonight.c: with _WIN32 defined, and without.
Builds == {"posix", "win32"}

\* Nothing allocated: structs and pads are the live blocks, live the
\* contexts returned and not yet freed, op the last call and ret what the
\* last cn_alloc_ctx returned.
HeapIdle(build) ==
    [build |-> build, structs |-> {}, pads |-> {}, live |-> {},
     next |-> 1, op |-> "none", ret |-> NULL, allocs |-> 0]

\* The scratchpad that posix_memalign or _aligned_malloc allocates.
Pad(id) == [id |-> id, bytes |-> CN_MAX_MEMORY, align |-> 16]

\* cn_alloc_ctx(), where calloc and the scratchpad allocation succeed or
\* fail as calloc_ok and pad_ok say. Without _WIN32 a failed
\* posix_memalign frees the struct and returns NULL; with _WIN32 the
\* result of _aligned_malloc is stored and the struct returned.
AllocOf(hp, calloc_ok, pad_ok) ==
    LET ctx_id == hp.next
        pad_id == hp.next + 1
    IN IF ~calloc_ok
       THEN [hp EXCEPT !.op = "alloc", !.ret = NULL, !.allocs = @ + 1]
       ELSE IF hp.build = "posix" /\ ~pad_ok
       THEN [hp EXCEPT !.op = "alloc", !.ret = NULL, !.allocs = @ + 1,
                       !.next = @ + 1]
       ELSE [hp EXCEPT
                !.structs = @ \cup {ctx_id},
                !.pads = IF pad_ok THEN @ \cup {Pad(pad_id)} ELSE @,
                !.live = @ \cup {[ctx |-> ctx_id,
                                  memory |-> IF pad_ok THEN pad_id ELSE NULL]},
                !.op = "alloc", !.ret = ctx_id, !.allocs = @ + 1,
                !.next = @ + 2]

cn_alloc_ctx(calloc_ok, pad_ok) ==
    /\ heap.allocs < MaxAllocs
    /\ heap' = AllocOf(heap, calloc_ok, pad_ok)
    /\ UNCHANGED <<sel, ctx, call, output, hist, results, ncalls, sph, unit>>

\* cn_free_ctx(ctx): if (!ctx) return; free(ctx->memory); free(ctx);
FreeOf(hp, p) ==
    IF p = NULL THEN [hp EXCEPT !.op = "free"]
    ELSE [hp EXCEPT !.op = "free",
                    !.pads = {b \in @ : \A h \in hp.live :
                                 h.ctx = p => b.id # h.memory},
                    !.structs = @ \ {p},
                    !.live = {h \in @ : h.ctx # p}]

cn_free_ctx(p) ==
    /\ p = NULL \/ \E h \in heap.live : h.ctx = p
    /\ heap' = FreeOf(heap, p)
    /\ UNCHANGED <<sel, ctx, call, output, hist, results, ncalls, sph, unit>>

(* ------------------------------------------------------------------ *)
(* keccak.c: gr_keccak step by step (keccak.c:136-167), with the int    *)
(* arithmetic of its loop and the bounds of temp[144]. The call is      *)
(*   pc      "absorb" in the loop, "done" after the return, "fault"     *)
(*           when a store outside temp has stopped it                   *)
(*   input, inlen, mdlen   the arguments                                *)
(*   off, left             in and inlen as the loop has moved them      *)
(*   st                    the state, as 25 lanes                       *)
(*   turns                 the turns of the loop taken                  *)
(*   oob                   a store outside temp has happened            *)
(*   md                    the bytes written to md                      *)
(*   perms                 the calls of gr_keccakf made                 *)
(*   absorbed              the bytes XORed into the state before each   *)
(*   temp                  the padded block, temp[0 .. rsiz - 1]        *)
(* ------------------------------------------------------------------ *)

\* uint8_t temp[144]
TempSize == 144

\* The stores of the padding, temp[0] to temp[rsiz - 1], are inside temp.
TempFits(rsiz) == rsiz <= TempSize

\* rsizw = rsiz / 8, the division of C.
RateWords(rsiz) == IF rsiz >= 0 THEN rsiz \div 8 ELSE 0 - ((0 - rsiz) \div 8)

\* gr_keccak(in, inlen, md, mdlen) up to its loop.
KkStart(input, mdlen) ==
    [pc |-> "absorb", input |-> input, inlen |-> Len(input), mdlen |-> mdlen,
     off |-> 0, left |-> Len(input),
     st |-> [i \in 1..25 |-> Zeros(8)] \o <<>>,
     turns |-> 0, oob |-> FALSE, md |-> <<>>,
     perms |-> 0, absorbed |-> <<>>, temp |-> <<>>]

\* One turn of for ( ; inlen >= rsiz; inlen -= rsiz, in += rsiz).
KkAbsorbOf(u, rsiz) ==
    [u EXCEPT !.st = KeccakRounds(AbsorbLanes(@, Bytes(u.input, u.off, 8 * RateWords(rsiz)),
                                              RateWords(rsiz)),
                                  0, KECCAK_ROUNDS),
              !.left = @ - rsiz, !.off = @ + rsiz, !.turns = @ + 1,
              !.perms = @ + 1,
              !.absorbed = Append(@, Bytes(u.input, u.off, 8 * RateWords(rsiz)))]

KkAbsorb ==
    /\ unit.pc = "absorb"
    /\ unit.left >= KeccakRate(unit.mdlen)
    /\ unit.turns < MaxTurns
    /\ unit' = KkAbsorbOf(unit, KeccakRate(unit.mdlen))
    /\ UNCHANGED <<sel, ctx, call, output, hist, results, ncalls, sph, heap>>

\* The last block and the padding, the last permutation and the copy to
\* md (keccak.c:153-166).
KkReturn(u, rsiz, st) ==
    [u EXCEPT !.st = st, !.md = Bytes(BytesOf(st), 0, u.mdlen),
              !.oob = ~TempFits(rsiz), !.pc = "done",
              !.perms = @ + 1,
              !.temp = PadBlock(Bytes(u.input, u.off, u.left), rsiz),
              !.absorbed = Append(@, Bytes(PadBlock(Bytes(u.input, u.off, u.left), rsiz),
                                           0, 8 * RateWords(rsiz)))]

KkPadOf(u, rsiz) ==
    KkReturn(u, rsiz,
             KeccakRounds(AbsorbLanes(u.st, PadBlock(Bytes(u.input, u.off, u.left), rsiz),
                                      RateWords(rsiz)),
                          0, KECCAK_ROUNDS))

\* A store outside temp is undefined: the call goes on with what it
\* stored (smashed is FALSE) or is stopped there.
KkPad(smashed) ==
    /\ unit.pc = "absorb"
    /\ unit.left < KeccakRate(unit.mdlen)
    /\ smashed => ~TempFits(KeccakRate(unit.mdlen))
    /\ unit' = IF smashed THEN [unit EXCEPT !.pc = "fault", !.oob = TRUE]
               ELSE KkPadOf(unit, KeccakRate(unit.mdlen))
    /\ UNCHANGED <<sel, ctx, call, output, hist, results, ncalls, sph, heap>>

(* ------------------------------------------------------------------ *)
(* cryptonight.c: cn_umul128 on words of two limbs of LimbBits bits     *)
(* (cryptonight.c:352-373), in the build with __SIZEOF_INT128__ and in  *)
(* the build without. Every uint64_t operation is taken modulo Word.    *)
(* ------------------------------------------------------------------ *)

Limb == 2 ^ LimbBits

Word == Limb * Limb

UmulPaths == {"int128", "portable"}

\* r = (__uint128_t)a * b; *hi = r >> 64; return (uint64_t)r;
UmulNative(a, b) == [lo |-> (a * b) % Word, hi |-> ((a * b) \div Word) % Word]

\* mid = p1 + (p0 >> 32); carry = (uint32_t)mid < (uint32_t)p1; mid += p2;
\* carry += (mid < p2); *hi = p3 + (mid >> 32) + (carry << 32);
\* return (p0 & 0xFFFFFFFF) | (mid << 32);
UmulSum(p0, p1, p2, p3, mid0) ==
    [lo |-> ((p0 % Limb) + (((mid0 + p2) % Word) * Limb)) % Word,
     hi |-> (p3 + (((mid0 + p2) % Word) \div Limb)
                + (((IF mid0 % Limb < p1 % Limb THEN 1 ELSE 0)
                    + (IF (mid0 + p2) % Word < p2 THEN 1 ELSE 0)) * Limb)) % Word]

\* p0 = a_lo * b_lo; p1 = a_lo * b_hi; p2 = a_hi * b_lo; p3 = a_hi * b_hi;
UmulProducts(p0, p1, p2, p3) == UmulSum(p0, p1, p2, p3, (p1 + (p0 \div Limb)) % Word)

\* a_lo = (uint32_t)a, a_hi = a >> 32; b_lo = (uint32_t)b, b_hi = b >> 32;
UmulPortable(a, b) ==
    UmulProducts(((a % Limb) * (b % Limb)) % Word,
                 ((a % Limb) * (b \div Limb)) % Word,
                 ((a \div Limb) * (b % Limb)) % Word,
                 ((a \div Limb) * (b \div Limb)) % Word)

\* cn_umul128(a, b, &hi) in the build that takes the path.
UmulOf(path, a, b) ==
    IF path = "int128" THEN UmulNative(a, b) ELSE UmulPortable(a, b)

\* The call cn_umul128(a, b, &hi) returns.
UmulApply ==
    /\ unit.pc = "umul"
    /\ unit' = [unit EXCEPT !.pc = "umul_done",
                            !.lo = UmulOf(unit.path, unit.a, unit.b).lo,
                            !.hi = UmulOf(unit.path, unit.a, unit.b).hi]
    /\ UNCHANGED <<sel, ctx, call, output, hist, results, ncalls, sph, heap>>

\* The block of the first store of an iteration is computed from the mix
\* accumulator and from the cipher output.
StoreApply ==
    /\ unit.pc = "store"
    /\ unit' = [unit EXCEPT !.pc = "store_done",
                            !.stored = StoreBlock(unit.bx0_lo, unit.bx0_hi, unit.cx)]
    /\ UNCHANGED <<sel, ctx, call, output, hist, results, ncalls, sph, heap>>

\* No function is called on its own.
NoUnit == [pc |-> "none"]

\* The entry points that take no context have not been called.
AuxIdle ==
    /\ sph = SphIdle
    /\ heap = HeapIdle("posix")
    /\ unit = NoUnit

SelIdle == [n |-> 0, seed |-> <<>>, indices |-> <<>>, done |-> TRUE]

Init ==
    /\ sel = SelIdle
    /\ ctx \in [Ctxs -> {CtxInit(g) : g \in GarbageSeeds}]
    /\ call = [c \in Ctxs |-> Idle]
    /\ output = [c \in Ctxs |-> OutInit]
    /\ hist = [c \in Ctxs |-> HistInit]
    /\ results = {}
    /\ ncalls = 0
    /\ AuxIdle

(* ------------------------------------------------------------------ *)
(* Spec: ghostrider_hash called on one context, with headers of two     *)
(* lengths and with arguments it rejects.                               *)
(* ------------------------------------------------------------------ *)

\* A header of len bytes whose seed, bytes 4..35, is SeedOf(a, b). The
\* first seed selects the variants 5, 1, 4 and the second 0, 3, 2.
HeaderShapes == << [len |-> 43, a |-> 15, b |-> 21], [len |-> 76, a |-> 2, b |-> 48] >>

Header(q) ==
    [j \in 1..q.len |->
        IF j - 1 \in 4..35 THEN SeedOf(q.a, q.b)[j - 4]
        ELSE ((29 * q.len) + (3 * j) + 1) % 256] \o <<>>

GrHeaders == {Header(HeaderShapes[q]) : q \in DOMAIN HeaderShapes}

GrArg(input, null_in, null_out, null_ctx) ==
    [input_null |-> null_in, input |-> IF null_in THEN <<>> ELSE input,
     input_len |-> Len(input), output_null |-> null_out, ctx_null |-> null_ctx]

\* The headers, with all pointers valid; two inputs that are too short;
\* and the first header with every combination of null pointers.
GrArgs ==
    {GrArg(hd, FALSE, FALSE, FALSE) :
        hd \in GrHeaders \cup {Bytes(Header(HeaderShapes[1]), 0, n) : n \in {0, 42}}}
    \cup {GrArg(Header(HeaderShapes[1]), ni, no, nc) : ni, no, nc \in BOOLEAN}

Next ==
    \E c \in Ctxs :
        \/ \E a \in GrArgs : GrCall(c, a)
        \/ GrCore(c)
        \/ GrCn(c)
        \/ GrPartEnd(c)
        \/ CnStep(c)

Spec == Init /\ [][Next]_vars

(* ------------------------------------------------------------------ *)
(* SpecCn: cryptonight_hash called directly, with every variant and     *)
(* with variants outside the table.                                     *)
(* ------------------------------------------------------------------ *)

CnInputs == {[j \in 1..HASH_BUF_SIZE |-> ((j * 37) + 11) % 256] \o <<>>}

CnVariants == (0 - 1)..NUM_CN_VARIANTS

\* cryptonight_hash(input, size, output, ctx, variant) is called.
CnCallOf(k, x, o, h, input, variant) ==
    [ctx |-> x, output |-> o,
     call |-> [Idle EXCEPT !.pc = "cn_enter", !.cn_input = input,
                           !.cn_size = Len(input), !.variant = variant,
                           !.ret = "direct"],
     hist |-> HEnter([h EXCEPT !.log = <<>>], variant, input, Len(input))]

CnCall(c, input, variant) ==
    /\ call[c].pc = "idle"
    /\ ncalls < MaxCnCalls
    /\ call' = [call EXCEPT ![c] =
                  CnCallOf(call[c], ctx[c], output[c], hist[c], input, variant).call]
    /\ hist' = [hist EXCEPT ![c] =
                  CnCallOf(call[c], ctx[c], output[c], hist[c], input, variant).hist]
    /\ ncalls' = ncalls + 1
    /\ UNCHANGED <<sel, ctx, output, results, aux>>

CnNext ==
    \E c \in Ctxs :
        \/ \E input \in CnInputs, variant \in CnVariants : CnCall(c, input, variant)
        \/ CnStep(c)

SpecCn == Init /\ [][CnNext]_vars

(* ------------------------------------------------------------------ *)
(* SpecSel: select_indices applied to seeds drawn from a family.        *)
(* ------------------------------------------------------------------ *)

SelSeeds == {SeedOf(a, b) : a \in SeedSteps, b \in (0..SeedSpan) \cup {255}}

SelInit ==
    /\ sel \in {[n |-> n, seed |-> s, indices |-> <<>>, done |-> FALSE] :
                   n \in {NUM_CORE_HASHES, NUM_CN_VARIANTS}, s \in SelSeeds}
    /\ ctx = [c \in Ctxs |-> NoCtx]
    /\ call = [c \in Ctxs |-> Idle]
    /\ output = [c \in Ctxs |-> OutInit]
    /\ hist = [c \in Ctxs |-> HistInit]
    /\ results = {}
    /\ ncalls = 0
    /\ AuxIdle

SelApply ==
    /\ ~sel.done
    /\ sel' = [sel EXCEPT !.indices = select_indices(sel.n, sel.seed),
                          !.done = TRUE]
    /\ UNCHANGED <<ctx, call, output, hist, results, ncalls, aux>>

SelNext == SelApply

SpecSel == SelInit /\ [][SelNext]_vars

(* ------------------------------------------------------------------ *)
(* SpecSph: ghostrider_sph_hash called with every index from -1 to 16,  *)
(* two inputs and every combination of null buffers, beside an          *)
(* allocated context.                                                   *)
(* ------------------------------------------------------------------ *)

SphInputs == {<<>>, [j \in 1..HASH_BUF_SIZE |-> ((j * 5) + 3) % 256] \o <<>>}

SphArgs ==
    {[algo_index |-> n, input_null |-> ni,
      input |-> IF ni THEN <<>> ELSE d, input_len |-> Len(d),
      output_null |-> no] :
        n \in (0 - 1)..(NUM_CORE_HASHES + 1), d \in SphInputs, ni, no \in BOOLEAN}

SphNext == \E a \in SphArgs : ghostrider_sph_hash(a)

SpecSph == Init /\ [][SphNext]_vars

(* ------------------------------------------------------------------ *)
(* SpecHeap: contexts allocated and freed in any order, in either       *)
(* build, every allocation being free to fail.                          *)
(* ------------------------------------------------------------------ *)

HeapInit ==
    /\ sel = SelIdle
    /\ ctx = [c \in Ctxs |-> NoCtx]
    /\ call = [c \in Ctxs |-> Idle]
    /\ output = [c \in Ctxs |-> OutInit]
    /\ hist = [c \in Ctxs |-> HistInit]
    /\ results = {}
    /\ ncalls = 0
    /\ sph = SphIdle
    /\ heap \in {HeapIdle(b) : b \in Builds}
    /\ unit = NoUnit

HeapNext ==
    \/ \E calloc_ok, pad_ok \in BOOLEAN : cn_alloc_ctx(calloc_ok, pad_ok)
    \/ \E p \in {NULL} \cup {h.ctx : h \in heap.live} : cn_free_ctx(p)

SpecHeap == HeapInit /\ [][HeapNext]_vars

(* ------------------------------------------------------------------ *)
(* SpecPar: two threads, each with a context of its own, call           *)
(* cryptonight_hash once; their steps interleave in every order.        *)
(* ------------------------------------------------------------------ *)

ParCtxs == {1, 2}

\* The call of the thread that owns context c: its input and its variant,
\* and what posix_memalign left in the scratchpad of c.
ParJob(c) ==
    [input |-> [j \in 1..HASH_BUF_SIZE |-> ((j * 37) + (11 * c)) % 256] \o <<>>,
     variant |-> 3 + c,
     garbage |-> c - 1]

ParInit ==
    /\ sel = SelIdle
    /\ ctx = [c \in ParCtxs |-> CtxInit(ParJob(c).garbage)]
    /\ call = [c \in ParCtxs |-> Idle]
    /\ output = [c \in ParCtxs |-> OutInit]
    /\ hist = [c \in ParCtxs |-> HistInit]
    /\ results = {}
    /\ ncalls = 0
    /\ AuxIdle

\* The thread of context c calls cryptonight_hash; results records that
\* another call is running when it does.
ParCall(c) ==
    /\ call[c].pc = "idle"
    /\ hist[c] = HistInit
    /\ Move(c, CnCallOf(call[c], ctx[c], output[c], hist[c],
                        ParJob(c).input, ParJob(c).variant))
    /\ ncalls' = ncalls + 1
    /\ results' = IF \E d \in ParCtxs : call[d].pc # "idle"
                  THEN results \cup {"overlap"} ELSE results
    /\ UNCHANGED <<sel, aux>>

ParNext ==
    \E c \in ParCtxs :
        \/ ParCall(c)
        \/ CnStep(c)

SpecPar == ParInit /\ [][ParNext]_vars

\* What the call of context c leaves when it runs alone.
Alone ==
    [c \in ParCtxs |->
        CnRun(CnCallOf(Idle, CtxInit(ParJob(c).garbage), OutInit, HistInit,
                       ParJob(c).input, ParJob(c).variant))]

(* ------------------------------------------------------------------ *)
(* SpecKeccak: gr_keccak called with every digest length from 1 to 200  *)
(* and inputs below, at and above the rate of the engine.               *)
(* ------------------------------------------------------------------ *)

KkLens == {0, HASH_DATA_AREA, HASH_DATA_AREA + 1}

KkInput(n) == [j \in 1..n |-> ((j * 29) + 5) % 256] \o <<>>

KkInit ==
    /\ sel = SelIdle
    /\ ctx = [c \in Ctxs |-> NoCtx]
    /\ call = [c \in Ctxs |-> Idle]
    /\ output = [c \in Ctxs |-> OutInit]
    /\ hist = [c \in Ctxs |-> HistInit]
    /\ results = {}
    /\ ncalls = 0
    /\ sph = SphIdle
    /\ heap = HeapIdle("posix")
    /\ unit \in {KkStart(KkInput(n), mdlen) : n \in KkLens, mdlen \in 1..200}

KkNext ==
    \/ KkAbsorb
    \/ \E smashed \in BOOLEAN : KkPad(smashed)

SpecKeccak == KkInit /\ [][KkNext]_vars

(* ------------------------------------------------------------------ *)
(* SpecMul: cn_umul128 called with every pair of words, in each build.  *)
(* ------------------------------------------------------------------ *)

MulInit ==
    /\ sel = SelIdle
    /\ ctx = [c \in Ctxs |-> NoCtx]
    /\ call = [c \in Ctxs |-> Idle]
    /\ output = [c \in Ctxs |-> OutInit]
    /\ hist = [c \in Ctxs |-> HistInit]
    /\ results = {}
    /\ ncalls = 0
    /\ sph = SphIdle
    /\ heap = HeapIdle("posix")
    /\ unit \in {[pc |-> "umul", path |-> path, a |-> a, b |-> b, lo |-> 0, hi |-> 0] :
                    path \in UmulPaths, a \in 0..(Word - 1), b \in 0..(Word - 1)}

MulNext == UmulApply

SpecMul == MulInit /\ [][MulNext]_vars

(* ------------------------------------------------------------------ *)
(* SpecStore: the block of the first store of a main-loop iteration,    *)
(* with every value of the byte that the tweak reads.                   *)
(* ------------------------------------------------------------------ *)

\* Cipher outputs whose byte 11 is v.
StoreCx(v, a) == [j \in 1..16 |-> IF j = 12 THEN v ELSE ((j * a) + 3) % 256] \o <<>>

StoreInit ==
    /\ sel = SelIdle
    /\ ctx = [c \in Ctxs |-> NoCtx]
    /\ call = [c \in Ctxs |-> Idle]
    /\ output = [c \in Ctxs |-> OutInit]
    /\ hist = [c \in Ctxs |-> HistInit]
    /\ results = {}
    /\ ncalls = 0
    /\ sph = SphIdle
    /\ heap = HeapIdle("posix")
    /\ unit \in {[pc |-> "store", bx0_lo |-> Bytes(bx0, 0, 8), bx0_hi |-> Bytes(bx0, 8, 8),
                  cx |-> StoreCx(v, a), stored |-> <<>>] :
                    bx0 \in {Zeros(16), StoreCx(\h5A, 11)}, v \in 0..255, a \in {7, 13}}

StoreNext == StoreApply

SpecStore == StoreInit /\ [][StoreNext]_vars

\* The number of positions of s that hold v.
Occurrences(s, v) == Cardinality({j \in DOMAIN s : s[j] = v})

\* C1: for n = 15 and n = 6 and every seed, select_indices assigns exactly
\* the n slots of its output and every index 0..n-1 occurs exactly once.
C1_SelectIsPermutation ==
    sel.done =>
        /\ DOMAIN sel.indices = 1..sel.n
        /\ \A v \in 0..(sel.n - 1) : Occurrences(sel.indices, v) = 1

\* C1 witness: the all-0xFF seed with n = 15, whose scan selects one index
\* only, has been permuted.
C1_Witness ==
    /\ sel.done
    /\ sel.n = NUM_CORE_HASHES
    /\ \A j \in 1..32 : sel.seed[j] = 255
    /\ sel.indices[1] = 0
    /\ sel.indices[NUM_CORE_HASHES] = 14

(* ------------------------------------------------------------------ *)
(* The pipeline's contract (Spec).                                      *)
(* ------------------------------------------------------------------ *)

\* The arguments name an absent buffer or context, or a short header.
BadArguments(a) ==
    a.input_null \/ a.output_null \/ a.ctx_null \/ a.input_len < 43

\* C2: ghostrider_hash returns non-zero exactly when the input, the output
\* or the context is null or the header is shorter than 43 bytes: a call
\* that has returned returned non-zero iff its arguments were bad, and
\* only a call with good arguments is ever inside the pipeline.
C2_ErrorIffBadArguments ==
    \A c \in Ctxs :
        /\ hist[c].rc # Pending =>
              ((hist[c].rc # 0) <=> BadArguments(hist[c].args))
        /\ call[c].pc # "idle" /\ call[c].ret = "gr" =>
              ~BadArguments(call[c].args)

\* C2 witness: a 43-byte header has been hashed with success and, after
\* it, a 42-byte header with all pointers valid has been refused.
C2_Witness ==
    \E c \in Ctxs :
        /\ \E r \in results : Len(r.input) = 43
        /\ hist[c].rc = 0 - 1
        /\ hist[c].args.input_len = 42
        /\ ~hist[c].args.input_null
        /\ ~hist[c].args.output_null
        /\ ~hist[c].args.ctx_null

\* The calls of the current or last ghostrider_hash on c, if it was not
\* refused.
PipelineLog(c) == IF hist[c].rc = 0 - 1 THEN <<>> ELSE hist[c].log

Perm15(c) == select_indices(NUM_CORE_HASHES, Bytes(hist[c].args.input, 4, 32))

Perm6(c) == select_indices(NUM_CN_VARIANTS, Bytes(hist[c].args.input, 4, 32))

\* C6: ghostrider_hash runs 3 stages in order; stage s makes 5 primitive
\* calls with the indices perm15[5s .. 5s+4] in that order, each call's
\* output being the next call's input, then one engine call with variant
\* perm6[s] on the resulting 64 bytes: the n-th call made is the one this
\* order puts at place n, and a successful hash has made all 18.
C6_StagesInOrder ==
    \A c \in Ctxs :
        LET log    == PipelineLog(c)
            perm15 == IF log = <<>> THEN <<>> ELSE Perm15(c)
            perm6  == IF log = <<>> THEN <<>> ELSE Perm6(c)
        IN /\ Len(log) <= 18
           /\ hist[c].rc = 0 /\ hist[c].args # NoArgs => Len(log) = 18
           /\ \A n \in 1..Len(log) :
                 LET s == (n - 1) \div 6
                     j == (n - 1) % 6
                 IN /\ IF j < 5
                       THEN /\ log[n].kind = "core"
                            /\ log[n].index = perm15[(5 * s) + j + 1]
                            /\ Len(log[n].out) = 64
                       ELSE /\ log[n].kind = "cn"
                            /\ log[n].index = perm6[s + 1]
                    /\ j > 0 => log[n].in = log[n - 1].out

\* C6 witness: the 76-byte header has been hashed, with 18 calls made.
C6_Witness ==
    \E c \in Ctxs :
        /\ hist[c].rc = 0
        /\ hist[c].args.input_len = 76
        /\ Len(hist[c].log) = 18
        /\ hist[c].log[18].index = 2

\* C7: the first primitive call of stage 0 receives the whole header with
\* its full length; every other primitive call and every engine call
\* receives exactly 64 bytes; the first primitive call of stages 1 and 2
\* receives the previous stage's 32-byte digest followed by 32 zero bytes.
C7_CallInputs ==
    \A c \in Ctxs :
        LET log == PipelineLog(c)
        IN \A n \in 1..Len(log) :
              /\ n = 1 => /\ log[n].in = hist[c].args.input
                          /\ log[n].len = hist[c].args.input_len
              /\ n > 1 => /\ log[n].len = 64
                          /\ Len(log[n].in) = 64
              /\ n > 1 /\ (n - 1) % 6 = 0 =>
                    /\ Len(log[n - 1].out) = 32
                    /\ log[n].in = log[n - 1].out \o Zeros(32)

\* C7 witness: the 76-byte header is in stage 2, whose first primitive
\* call has been made.
C7_Witness ==
    \E c \in Ctxs :
        /\ hist[c].rc = Pending
        /\ hist[c].args.input_len = 76
        /\ Len(hist[c].log) = 13
        /\ Len(hist[c].log[1].in) = 76

\* C8: on success the output buffer holds the digest of the stage-2
\* engine call: the extra hash of the state that call left, which is the
\* digest the 18th call returned.
C8_OutputIsLastDigest ==
    \A c \in Ctxs :
        hist[c].rc = 0 /\ hist[c].args # NoArgs =>
            /\ Len(hist[c].log) = 18
            /\ hist[c].log[18].kind = "cn"
            /\ output[c] = hist[c].log[18].out
            /\ output[c] = extra_hashes(ByteAnd(ctx[c].state[1], 3), ctx[c].state, 200)

\* C8 witness: a hash has succeeded and its output is neither the digest
\* of stage 0 nor that of stage 1, which were written there before.
C8_Witness ==
    \E c \in Ctxs :
        /\ hist[c].rc = 0
        /\ Len(hist[c].log) = 18
        /\ output[c] = hist[c].log[18].out
        /\ output[c] # hist[c].log[6].out
        /\ output[c] # hist[c].log[12].out

\* C5: the output of a successful ghostrider_hash depends on its header
\* only: no engine call reads a field of the context or a chunk of the
\* scratchpad before having written it, and two hashes of one header,
\* whatever ran on the context before, gave one output.
C5_OutputDependsOnHeaderOnly ==
    /\ \A c \in Ctxs : call[c].ret = "gr" => hist[c].stale = NoTaint
    /\ \A r1, r2 \in results : r1.input = r2.input => r1.output = r2.output

\* C5 witness: two hashes have succeeded on the context and left one
\* result: the same header was hashed on the fresh context and on the
\* context the first hash left behind, with a half-memory variant.
C5_Witness ==
    \E c \in Ctxs :
        /\ ncalls = 2
        /\ hist[c].rc = 0
        /\ call[c].pc = "idle"
        /\ Cardinality(results) = 1
        /\ hist[c].args.input_len = 43
        /\ ctx[c].save_state # Zeros(128)

(* ------------------------------------------------------------------ *)
(* The engine's contract (SpecCn).                                      *)
(* ------------------------------------------------------------------ *)

\* The engine call on c has returned.
CnReturned(c) == hist[c].cn_ret # "none" /\ hist[c].cn_ret # "running"

\* C3: cryptonight_hash called with a variant outside 0..5 reports an
\* error to its caller: what it returns is an error value, not the
\* nothing of a call that wrote a digest.
C3_InvalidVariantReported ==
    \A c \in Ctxs :
        CnReturned(c) /\ ~ValidVariant(hist[c].cn_variant) =>
            hist[c].cn_ret # Void

\* The table of the source keeps every masked offset aligned and inside
\* the region the variant fills, and every region inside the allocation.
TableInBounds ==
    \A v \in 1..NUM_CN_VARIANTS :
        LET r == gr_variants[v]
        IN /\ r.mask % 16 = 0
           /\ r.mask + 16 <= FillOf(r)
           /\ FillOf(r) % STRIDE = 0
           /\ r.memory <= CN_MAX_MEMORY

\* C4: every scratchpad read and write of the engine (fill, main loop,
\* drain, refill) is at a 16-byte-aligned offset o with
\* o + 16 <= variant.bytes, inside the allocation.
C4_AccessesInBounds ==
    /\ TableInBounds
    /\ \A c \in Ctxs :
          /\ ~hist[c].fault
          /\ \A o \in hist[c].touched :
                /\ o % 16 = 0
                /\ o + 16 <= VMemory(hist[c].cn_variant)
                /\ o + 16 <= MaxMemory

\* C4 witness: the drain of a half-memory variant reads the last stride
\* of the refilled half.
C4_Witness ==
    \E c \in Ctxs :
        /\ call[c].variant = 5
        /\ call[c].pc = "im_end"
        /\ call[c].pass = 2
        /\ (VFill(5) - 16) \in hist[c].touched

\* One uninterrupted Explode of n strides from the blocks with the round
\* keys rk: the loop of cn_explode_scratchpad (cryptonight.c:275-289).
RECURSIVE FullExplode(_, _, _)
FullExplode(rk, blocks, n) ==
    IF n = 0 THEN <<>>
    ELSE LET next == [b \in 1..8 |-> cn_aes_10rounds(blocks[b], rk)] \o <<>>
         IN Flat(next) \o FullExplode(rk, next, n - 1)

\* The stream a full Explode of the variant of c gives from the key and
\* the blocks its first fill started with.
FullStream(c) ==
    FullExplode(cn_aes_genkey(hist[c].fill0[1]), hist[c].fill0[2],
                VMemory(hist[c].cn_variant) \div STRIDE)

\* C9: for the half-memory variants, the first fill is the first half of
\* the stream of one uninterrupted full Explode from the same blocks and
\* key, and the refill is byte for byte its second half.
C9_RefillContinuesStream ==
    \A c \in Ctxs :
        LET v    == hist[c].cn_variant
            half == VFill(v)
        IN /\ call[c].pc = "main_init" /\ VHalfMem(v) =>
                 Bytes(ctx[c].memory, 0, half) = Bytes(FullStream(c), 0, half)
           /\ hist[c].refilled =>
                 Bytes(ctx[c].memory, 0, half) = Bytes(FullStream(c), half, half)

\* C9 witness: variant 1 has refilled its scratchpad, with content that is
\* not that of its first fill.
C9_Witness ==
    \E c \in Ctxs :
        /\ hist[c].refilled
        /\ hist[c].cn_variant = 1
        /\ Bytes(ctx[c].memory, 0, VFill(1)) # Bytes(FullStream(c), 0, VFill(1))

\* The chunks of the first n bytes of the scratchpad.
ChunksBelow(n) == 0..((n \div 16) - 1)

\* C10 as stated: every hash call, run with a variant 0..5, overwrites the
\* whole scratchpad buffer and the whole working state.
C10_WholeScratchpadOverwritten ==
    \A c \in Ctxs :
        CnReturned(c) /\ ValidVariant(hist[c].cn_variant) =>
            /\ "state" \in hist[c].fresh.fields
            /\ hist[c].fresh.chunks = ChunksBelow(MaxMemory)

\* C10, amended: a hash call with a variant 0..5 overwrites the working
\* state and the bytes [0, F) of the scratchpad, F being variant.bytes,
\* halved for a half-memory variant, and writes no other byte of the
\* scratchpad; a call with another variant writes nothing of the context.
C10_FillRegionOverwritten ==
    \A c \in Ctxs :
        CnReturned(c) =>
            IF ValidVariant(hist[c].cn_variant)
            THEN /\ "state" \in hist[c].fresh.fields
                 /\ hist[c].fresh.chunks = ChunksBelow(VFill(hist[c].cn_variant))
            ELSE hist[c].fresh = NoTaint

\* C10 witness: variant 5 has returned, the bytes behind its region being
\* those the allocation came with.
C10_Witness ==
    \E c \in Ctxs :
        /\ CnReturned(c)
        /\ hist[c].cn_variant = 5
        /\ "state" \in hist[c].fresh.fields
        /\ Bytes(ctx[c].memory, VFill(5), MaxMemory - VFill(5))
              = Bytes(Garbage(1), VFill(5), MaxMemory - VFill(5))

(* ------------------------------------------------------------------ *)
(* The tweak of the engine calls of ghostrider_hash (Spec).             *)
(* ------------------------------------------------------------------ *)

\* The engine call that ghostrider_hash made on c has seeded its state
\* and derived its tweak, and nothing has changed the state since.
TweakDerived(c) ==
    /\ call[c].ret = "gr"
    /\ call[c].pc = "ex_begin"
    /\ call[c].after = "main_init"

\* What the engine call on c XORed with lane 24 of its seeded state.
TweakBytes(c) == XorBytes(call[c].tweak1_2, Bytes(ctx[c].state, 192, 8))

\* C11 as stated: the 8 bytes each engine call of ghostrider_hash XORs
\* with state lane 24 to form its tweak are the bytes 35..42 of the header
\* passed to ghostrider_hash.
C11_TweakFromHeader ==
    \A c \in Ctxs :
        TweakDerived(c) => TweakBytes(c) = Bytes(hist[c].args.input, 35, 8)

\* C11, amended: the 8 bytes each engine call of ghostrider_hash XORs with
\* state lane 24 to form its tweak are the bytes 35..42 of the 64-byte
\* buffer the engine is called on, which is the digest of the fifth
\* primitive of the stage.
C11_TweakFromEngineInput ==
    \A c \in Ctxs :
        TweakDerived(c) =>
            LET log == hist[c].log
                n   == Len(log)
            IN /\ n = (6 * call[c].part) + 6
               /\ log[n].kind = "cn"
               /\ log[n - 1].kind = "core"
               /\ TweakBytes(c) = Bytes(log[n - 1].out, 35, 8)
               /\ TweakBytes(c) = Bytes(log[n].in, 35, 8)

\* C11 witness: the engine call of stage 2 has derived its tweak, from
\* bytes that are not those of the header.
C11_Witness ==
    \E c \in Ctxs :
        /\ TweakDerived(c)
        /\ call[c].part = 2
        /\ TweakBytes(c) # Bytes(hist[c].args.input, 35, 8)

(* ------------------------------------------------------------------ *)
(* The single-primitive entry point (SpecSph).                          *)
(* ------------------------------------------------------------------ *)

\* C12: ghostrider_sph_hash with an index in 0..14 and non-null buffers
\* invokes exactly the primitive at that index on the data, writes its 64
\* bytes to the output and returns 0; with an index below 0 or above 14,
\* or a null input or output, it returns non-zero, invokes no primitive
\* and leaves the output as it was; no context is touched either way.
C12_SphHashContract ==
    /\ sph.rc # Pending =>
          LET a == sph.args
          IN IF a.algo_index \in 0..14 /\ ~a.input_null /\ ~a.output_null
             THEN /\ sph.rc = 0
                  /\ Len(sph.invoked) = 1
                  /\ sph.invoked[1].index = a.algo_index
                  /\ sph.invoked[1].in = a.input
                  /\ sph.invoked[1].len = a.input_len
                  /\ Len(sph.out) = 64
                  /\ sph.out = Digest(a.algo_index, a.input, a.input_len, 64)
             ELSE /\ sph.rc # 0
                  /\ sph.invoked = <<>>
                  /\ sph.out = sph.prev
    /\ \A c \in Ctxs :
          /\ \E g \in GarbageSeeds : ctx[c] = CtxInit(g)
          /\ call[c] = Idle
          /\ output[c] = OutInit
          /\ hist[c] = HistInit

\* C12 witness: primitive 14 has run on the 64-byte input after a call
\* with index 15 was refused, and has replaced what the buffer held.
C12_Witness ==
    /\ sph.calls = 2
    /\ sph.rc = 0
    /\ sph.args.algo_index = 14
    /\ sph.args.input_len = 64
    /\ sph.prev = SphOutInit
    /\ sph.out # sph.prev

(* ------------------------------------------------------------------ *)
(* The lifecycle of contexts (SpecHeap).                                *)
(* ------------------------------------------------------------------ *)

\* C13: after any sequence of ghostrider_alloc_ctx and ghostrider_free_ctx
\* calls in which either allocation may fail, the live allocations are
\* exactly one context struct and one scratchpad of 2,097,152 bytes for
\* each context returned and not yet freed: a failed alloc returns NULL
\* and leaves nothing allocated, free releases both blocks, and free of
\* NULL does nothing.
C13_LiveAllocations ==
    /\ heap.structs = {h.ctx : h \in heap.live}
    /\ heap.pads = {Pad(h.memory) : h \in heap.live}
    /\ \A h \in heap.live : h.ctx # NULL /\ h.memory # NULL
    /\ \A b \in heap.pads : b.bytes = 2097152
    /\ Cardinality(heap.pads) = Cardinality(heap.live)
    /\ heap.op = "alloc" /\ heap.ret # NULL =>
           \E h \in heap.live : h.ctx = heap.ret

(* ------------------------------------------------------------------ *)
(* Calls on distinct contexts (SpecPar).                                *)
(* ------------------------------------------------------------------ *)

\* The call on context c has returned.
ParReturned(c) == call[c].pc = "idle" /\ hist[c] # HistInit

\* C14: hash calls that run concurrently on distinct contexts share no
\* mutable state: under every interleaving of their steps, a call that
\* has returned has produced the digest, and left its context in the
\* state, that it produces and leaves when it runs alone; and a step of
\* one call changes nothing of the other context.
C14_SameAsAlone ==
    \A c \in DOMAIN ctx :
        /\ ParReturned(c) =>
              /\ output[c] = Alone[c].output
              /\ ctx[c] = Alone[c].ctx
              /\ hist[c].rc = Alone[c].hist.rc
        /\ call[c].pc = "idle" /\ hist[c] = HistInit =>
              ctx[c] = CtxInit(ParJob(c).garbage) /\ output[c] = OutInit

\* Both calls have returned, and one began while the other was running.
C14_Witness ==
    /\ DOMAIN ctx = ParCtxs
    /\ \A c \in ParCtxs : ParReturned(c) /\ output[c] # OutInit
    /\ "overlap" \in results

(* ------------------------------------------------------------------ *)
(* The sponge on its own (SpecKeccak).                                  *)
(* ------------------------------------------------------------------ *)

\* C15: for every input length and every output_len from 1 to 200,
\* gr_keccak terminates (its loop takes no more turns than the input has
\* bytes), writes only inside its padding buffer, and returns the first
\* output_len bytes of the state.
C15_SpongeAllLengths ==
    /\ unit.pc # "none" =>
          /\ unit.turns <= unit.inlen
          /\ ~unit.oob
          /\ unit.pc # "fault"
    /\ unit.pc = "done" =>
          /\ unit.md = Bytes(BytesOf(unit.st), 0, unit.mdlen)
          /\ Len(unit.md) = unit.mdlen

(* ------------------------------------------------------------------ *)
(* The phases of one engine call (SpecCn).                              *)
(* ------------------------------------------------------------------ *)

\* The call k is in cn_explode_scratchpad.
InExplode(k) == k.pc \in {"ex_begin", "ex_stride", "ex_end"}

\* The call k is in the cn_explode_scratchpad that cn_implode_scratchpad
\* calls.
Nested(k) == InExplode(k) /\ k.after = "im_loop"

\* The phase the call k is in: 1 Seed, 2 Explode, 3 Main loop, 4 Implode,
\* 5 Finalize, and 0 outside cryptonight_hash.
Phase(k) ==
    CASE k.pc = "cn_enter" -> 1
      [] InExplode(k) /\ k.after = "main_init" -> 2
      [] k.pc \in {"main_init", "main_iter"} -> 3
      [] k.pc \in {"im_begin", "im_pass", "im_loop", "im_end"} -> 4
      [] Nested(k) -> 4
      [] k.pc = "cn_final" -> 5
      [] OTHER -> 0

\* The step of context c keeps the order of the phases: it stays in its
\* phase or enters the next one, and it returns from the last one only;
\* it enters the nested Explode only from the head of the second pass of
\* the Implode of a half-memory variant, and the passes only count up.
PhaseStep(c) ==
    /\ Phase(call'[c]) \in {Phase(call[c]), (Phase(call[c]) + 1) % 6}
    /\ Nested(call'[c]) /\ ~Nested(call[c]) =>
          /\ call[c].pc = "im_pass"
          /\ call[c].pass = 1
          /\ VHalfMem(call[c].variant)
    /\ Phase(call'[c]) = 3 /\ Phase(call[c]) = 3 /\ call[c].pc = "main_iter" =>
          call'[c].it = call[c].it + 1
    /\ call'[c].pc = "im_pass" /\ call[c].pc = "im_loop" =>
          call'[c].pass = call[c].pass + 1

\* C16: one engine call with a valid variant runs the phases Seed,
\* Explode, Main loop, Implode, Finalize in this order, each once and
\* none retried; the only nested step is the one Explode inside the
\* Implode, which only a half-memory variant runs, between its first and
\* its second drain pass.
C16_PhaseOrder ==
    [][\A c \in Ctxs :
          Phase(call[c]) # 0 /\ ValidVariant(call[c].variant) => PhaseStep(c)]_vars

\* C16 witness: the call of a half-memory variant is in its second drain
\* pass, the nested Explode having just returned.
C16_Witness ==
    \E c \in Ctxs :
        /\ call[c].pc = "im_loop"
        /\ call[c].pass = 1
        /\ VHalfMem(call[c].variant)
        /\ hist[c].refilled

(* ------------------------------------------------------------------ *)
(* The masks of the variant table (SpecCn).                             *)
(* ------------------------------------------------------------------ *)

\* The rows of the table as the specification lists them: bytes,
\* iterations, mask, half-memory.
TableAsSpecified ==
    << <<524288, 131072, \h7FFF0, FALSE>>,
       <<524288, 131072, \h3FFF0, TRUE>>,
       <<2097152, 262144, \h1FFFF0, FALSE>>,
       <<1048576, 262144, \hFFFF0, FALSE>>,
       <<262144, 65536, \h3FFF0, FALSE>>,
       <<262144, 65536, \h1FFF0, TRUE>> >>

\* The row of gr_variants for the variant, in the same form.
TableRow(variant) ==
    << gr_variants[variant + 1].memory, gr_variants[variant + 1].iterations,
       gr_variants[variant + 1].mask, gr_variants[variant + 1].half_mem # 0 >>

\* The first Explode of the call on c has returned and the main loop has
\* not begun.
Filled(c) == call[c].pc = "main_init" /\ ValidVariant(call[c].variant)

\* C17: for the variant of every call, mask + 16 is the size of the
\* region the Explode before the main loop fills (variant.bytes, halved
\* for the half-memory variants 1 and 5), mask = (size / 16 - 1) * 16, so
\* that the slots the main loop can address are the slots just filled;
\* and the row of the table is that of the specification.
C17_MaskCoversFill ==
    \A c \in Ctxs :
        Filled(c) =>
            /\ gr_variants[call[c].variant + 1].mask + 16
                  = FillOf(gr_variants[call[c].variant + 1])
            /\ gr_variants[call[c].variant + 1].mask
                  = ((FillOf(gr_variants[call[c].variant + 1]) \div 16) - 1) * 16
            /\ VMask(call[c].variant) + 16 = VFill(call[c].variant)
            /\ VHalfMem(call[c].variant) <=> call[c].variant \in {1, 5}
            /\ hist[c].fresh.chunks = ChunksBelow(VMask(call[c].variant) + 16)
            /\ TableRow(call[c].variant) = TableAsSpecified[call[c].variant + 1]

\* C17 witness: the half-memory variant 5 has filled its half, which is
\* what its mask addresses, and not the rest of its scratchpad.
C17_Witness ==
    \E c \in Ctxs :
        /\ Filled(c)
        /\ call[c].variant = 5
        /\ hist[c].fresh.chunks = ChunksBelow(VMask(5) + 16)
        /\ VMask(5) + 16 < VMemory(5)

(* ------------------------------------------------------------------ *)
(* The product of the main loop (SpecCn).                               *)
(* ------------------------------------------------------------------ *)

\* The step taken is one iteration of the main loop of the call on c.
IterStep(c) ==
    /\ call[c].pc = "main_iter"
    /\ call'[c].pc \in {"main_iter", "im_begin"}
    /\ call'[c].it = call[c].it + 1

\* The offset of the second access of the iteration just made: the low 8
\* bytes of the cipher output, which bx0 now holds, masked.
SecondOffset(k) == Masked(k.bx0_lo, VMask(k.variant))

\* After an iteration the scratchpad holds, at the second offset, the low
\* accumulator as the sum left it, and the new low accumulator is that
\* XORed with the 8 bytes cl read there.
SumStored(k, x) == Bytes(x.memory, SecondOffset(k), 8)

ReadAtSecond(k, x) == XorBytes(k.al0, SumStored(k, x))

\* The iteration of the call on c added to its accumulators the halves
\* of the product of operand and of the 8 bytes read at the new address.
ProductAdded(c, operand) ==
    /\ SumStored(call'[c], ctx'[c])
          = Add64(call[c].al0,
                  cn_umul128(operand, ReadAtSecond(call'[c], ctx'[c])).hi)
    /\ XorBytes(Bytes(ctx'[c].memory, SecondOffset(call'[c]) + 8, 8),
                call[c].tweak1_2)
          = Add64(call[c].ah0,
                  cn_umul128(operand, ReadAtSecond(call'[c], ctx'[c])).lo)

\* C18 as stated: in every iteration of the main loop the 128-bit product
\* is taken of the current low accumulator al0 and the first 8 bytes read
\* at the new address.
C18_ProductOfAccumulator ==
    [][\A c \in Ctxs : IterStep(c) => ProductAdded(c, call[c].al0)]_vars

\* C18, amended: in every iteration of the main loop the 128-bit product
\* is taken of the low 8 bytes of the cipher output of step (a), which
\* are the new address, and the first 8 bytes read at the new address.
C18_ProductOfCipherOutput ==
    [][\A c \in Ctxs : IterStep(c) => ProductAdded(c, call'[c].bx0_lo)]_vars

\* C18 witness: an iteration has been made whose cipher output differs
\* from the low accumulator and that read bytes other than zero.
C18_Witness ==
    \E c \in Ctxs :
        /\ call[c].pc = "main_iter"
        /\ call[c].it >= 1
        /\ ReadAtSecond(call[c], ctx[c]) # Zeros(8)
        /\ call[c].bx0_lo # Zeros(8)
        /\ call[c].bx0_lo # call[c].al0

(* ------------------------------------------------------------------ *)
(* The multiplication on its own (SpecMul).                             *)
(* ------------------------------------------------------------------ *)

\* C19: cn_umul128(a, b) returns the low and the high half of the full
\* product a * b for all words a and b, in the portable fallback as in
\* the native path.
C19_ExactProduct ==
    unit.pc = "umul_done" => unit.lo + (Word * unit.hi) = unit.a * unit.b

(* ------------------------------------------------------------------ *)
(* The perturbation of the stored block (SpecStore).                    *)
(* ------------------------------------------------------------------ *)

\* The number of bits set in the byte b.
PopCount(b) ==
    (b % 2) + ((b \div 2) % 2) + ((b \div 4) % 2) + ((b \div 8) % 2)
    + ((b \div 16) % 2) + ((b \div 32) % 2) + ((b \div 64) % 2) + ((b \div 128) % 2)

\* bx0 ^ cx, the block without the perturbation.
Unperturbed(u) == XorBytes(u.bx0_lo \o u.bx0_hi, u.cx)

\* What the perturbation XORed into byte j (from 0) of the stored block.
Flipped(u, j) == ByteXor(u.stored[j + 1], Unperturbed(u)[j + 1])

\* C20 as stated: the perturbation flips 2 bits of byte 11 of the block
\* stored at the old address, for every value of that byte; no other byte
\* of the stored block differs from mix accumulator XOR cipher output.
C20_FlipsTwoBits ==
    unit.pc = "store_done" =>
        /\ PopCount(Flipped(unit, 11)) = 2
        /\ \A j \in 0..15 : j # 11 => Flipped(unit, j) = 0

\* C20, amended: the perturbation flips at most 2 bits of byte 11 of the
\* block stored at the old address, none but bits 4 and 5 (it XORs the
\* byte with 0x00, 0x10 or 0x30, chosen by bits 0, 4 and 5 of the byte),
\* for every value of that byte; no other byte of the stored block
\* differs from mix accumulator XOR cipher output.
C20_FlipsAtMostTwoBits ==
    unit.pc = "store_done" =>
        /\ PopCount(Flipped(unit, 11)) <= 2
        /\ Flipped(unit, 11) \in {0, \h10, \h30}
        /\ \A j \in 0..15 : j # 11 => Flipped(unit, j) = 0

\* C20 witness: a block has been stored whose byte 11 the perturbation
\* left as it was.
C20_Witness ==
    /\ unit.pc = "store_done"
    /\ Flipped(unit, 11) = 0
    /\ unit.stored # Zeros(16)

(* ------------------------------------------------------------------ *)
(* The two accesses of one iteration of the main loop (SpecCn).         *)
(* ------------------------------------------------------------------ *)

\* The offset of the first access of the iteration about to be made.
FirstOffset(k) == Masked(k.idx0, VMask(k.variant))

\* The cipher output of the iteration just made, which bx0 now holds.
CipherOutput(k) == k.bx0_lo \o k.bx0_hi

\* The 16 bytes that the iteration of the call on c has read at the new
\* address if its store to the old address came first: the block stored
\* there when the two addresses are one slot, the content of the slot
\* otherwise.
FreshBlock(c) ==
    IF FirstOffset(call[c]) = SecondOffset(call'[c])
    THEN StoreBlock(call[c].bx0_lo, call[c].bx0_hi, CipherOutput(call'[c]))
    ELSE Bytes(ctx[c].memory, SecondOffset(call'[c]), 16)

\* The sums al0 + hi and ah0 + lo of the iteration of the call on c, the
\* product being that of the new address value and of the bytes cl.
SumLow(c, cl) == Add64(call[c].al0, cn_umul128(call'[c].bx0_lo, cl).hi)

SumHigh(c, cl) == Add64(call[c].ah0, cn_umul128(call'[c].bx0_lo, cl).lo)

\* The iteration of the call on c stored the sums at the new address with
\* the tweak in the high half only, and carries on the sums XORed with
\* the block rb it read.
TweakInHighHalf(c, rb) ==
    /\ Bytes(ctx'[c].memory, SecondOffset(call'[c]), 16)
          = SumLow(c, Bytes(rb, 0, 8))
               \o XorBytes(SumHigh(c, Bytes(rb, 0, 8)), call[c].tweak1_2)
    /\ call'[c].al0 = XorBytes(SumLow(c, Bytes(rb, 0, 8)), Bytes(rb, 0, 8))
    /\ call'[c].ah0 = XorBytes(SumHigh(c, Bytes(rb, 0, 8)), Bytes(rb, 8, 8))

\* C21: the tweak is computed once, in the Seed phase (it is bytes
\* 35..42 of the input XOR lane 24 of the seeded state), and is constant
\* over all iterations; every iteration XORs it only into the high 8
\* bytes of the block stored at the new address, and the accumulators
\* carried on are the untweaked sums XORed with the two halves read
\* before that store.
C21_TweakOnlyInStoredHigh ==
    [][\A c \in Ctxs :
          /\ Phase(call[c]) \in 2..5 /\ Phase(call'[c]) # 0 =>
                /\ call'[c].tweak1_2 = call[c].tweak1_2
                /\ Phase(call[c]) \in 2..3 =>
                      TweakBytes(c) = Bytes(call[c].cn_input, 35, 8)
          /\ IterStep(c) => TweakInHighHalf(c, FreshBlock(c))]_vars

\* C21 witness: an iteration has been made with a tweak other than zero,
\* and the stored high half differs from the untweaked one.
C21_Witness ==
    \E c \in Ctxs :
        /\ call[c].pc = "main_iter"
        /\ call[c].it >= 2
        /\ call[c].tweak1_2 # Zeros(8)
        /\ Bytes(ctx[c].memory, SecondOffset(call[c]) + 8, 8) # Zeros(8)

\* The content of the slot at the new address from before the iteration.
StaleBlock(c) == Bytes(ctx[c].memory, SecondOffset(call'[c]), 16)

\* The block that the iteration of the call on c has read at the new
\* address, recovered from what it stored there and from the
\* accumulators it carries on.
BlockRead(c) ==
    XorBytes(call'[c].al0, Bytes(ctx'[c].memory, SecondOffset(call'[c]), 8))
        \o XorBytes(call'[c].ah0,
                    XorBytes(Bytes(ctx'[c].memory, SecondOffset(call'[c]) + 8, 8),
                             call[c].tweak1_2))

\* C30: within one iteration the store to the old address completes
\* before the read at the new address, and the iterations follow one
\* another: when the two addresses mask to one slot the read returns the
\* block just stored (mix XOR cipher output, byte 11 perturbed), not what
\* the slot held before the iteration; the next iteration starts from
\* the accumulators and the scratchpad that this one left.
C30_StoreBeforeRead ==
    [][\A c \in Ctxs :
          IterStep(c) =>
              /\ BlockRead(c) = FreshBlock(c)
              /\ FirstOffset(call[c]) = SecondOffset(call'[c]) =>
                    BlockRead(c)
                        = StoreBlock(call[c].bx0_lo, call[c].bx0_hi,
                                     CipherOutput(call'[c]))
              /\ call'[c].idx0 = call'[c].al0]_vars

\* C30 witness: an iteration has been made whose two addresses are one
\* slot.
C30_Witness ==
    \E c \in Ctxs :
        /\ call[c].pc = "main_iter"
        /\ call[c].it >= 1
        /\ Cardinality(hist[c].touched) = 1

(* ------------------------------------------------------------------ *)
(* C22: the engine terminates, and its work is a function of the        *)
(* variant.                                                             *)
(* ------------------------------------------------------------------ *)

\* The strides of 8 blocks that cover the scratchpad of a variant.
Strides(variant) == VMemory(variant) \div STRIDE

\* The steps of a whole call: the strides of the fills and of the drain
\* passes, the iterations, and the steps around them (one more pass head
\* and one more Explode, with its two ends, for a half-memory variant).
StepsOf(variant) ==
    (2 * Strides(variant)) + VIterations(variant)
        + (IF VHalfMem(variant) THEN 11 ELSE 8)

WorkOf(variant) ==
    [fill |-> Strides(variant), iters |-> VIterations(variant),
     drain |-> Strides(variant), steps |-> StepsOf(variant)]

\* The fills done when the main loop starts and when the refill starts.
FirstFill(variant) ==
    IF VHalfMem(variant) THEN Strides(variant) \div 2 ELSE Strides(variant)

\* The guards of the disjuncts of CnStep: the call of context c is at a
\* step of the engine, and at the head of a loop only with a turn to make.
CanStep(c) ==
    /\ call[c].pc \in CnPcs
    /\ call[c].pc = "ex_stride" => call[c].ex_i < call[c].ex_N
    /\ call[c].pc = "main_iter" => call[c].it < VIterations(call[c].variant)
    /\ call[c].pc = "im_pass" => call[c].pass < call[c].num_passes
    /\ call[c].pc = "im_loop" => call[c].im_i < call[c].im_N

\* C22: in every call of cryptonight_hash with a variant of the table,
\* whatever the input and the content of the context, no step touches
\* memory outside the allocation, a call that has not returned can take
\* a step, and the call has taken no more than StepsOf(variant) steps, so
\* that it returns; when it returns it has made exactly
\* variant.iterations iterations of the main loop, variant.bytes / 128
\* strides of fill and as many of drain; a half-memory variant has made
\* half of the fill strides before the main loop, and half of the fill
\* and of the drain strides when the refill starts.
C22_WorkByVariant ==
    \A c \in Ctxs :
        LET v == hist[c].cn_variant
            w == hist[c].work
        IN (hist[c].cn_ret # "none" /\ ValidVariant(v)) =>
              /\ ~hist[c].fault
              /\ call[c].pc # "fault"
              /\ w.steps <= StepsOf(v)
              /\ hist[c].cn_ret = "running" => CanStep(c)
              /\ CnReturned(c) => w = WorkOf(v)
              /\ call[c].pc = "main_init" =>
                    w = [NoWork EXCEPT !.fill = FirstFill(v), !.steps = w.steps]
              /\ call[c].pc = "im_begin" =>
                    (w.fill = FirstFill(v) /\ w.iters = VIterations(v) /\ w.drain = 0)
              /\ (call[c].pc = "ex_begin" /\ call[c].after = "im_loop") =>
                    /\ VHalfMem(v)
                    /\ w.fill = Strides(v) \div 2
                    /\ w.drain = Strides(v) \div 2

\* A call with a half-memory variant has returned after both of its
\* fills, its iterations and both of its drain passes.
C22_Witness ==
    \E c \in Ctxs :
        /\ CnReturned(c)
        /\ ValidVariant(hist[c].cn_variant)
        /\ VHalfMem(hist[c].cn_variant)
        /\ hist[c].work.fill = 2 * FirstFill(hist[c].cn_variant)
        /\ hist[c].work.drain = hist[c].work.fill
        /\ hist[c].work.iters > 0

(* ------------------------------------------------------------------ *)
(* C28: the half-memory protocol on first_half and save_state.          *)
(* ------------------------------------------------------------------ *)

\* The accesses of kind op to field f among the accesses acc.
Accesses(acc, op, f) ==
    Cardinality({n \in 1..Len(acc) : acc[n].op = op /\ f \in acc[n].fields})

\* The step of context c makes an access of kind op to field f.
Accessing(c, op, f) ==
    Accesses(hist'[c].acc, op, f) > Accesses(hist[c].acc, op, f)

\* The call of context c is in its first fill, in its refill.
InFirstFill(k) ==
    k.pc \in {"ex_begin", "ex_stride", "ex_end"} /\ k.after = "main_init"

InRefill(k) ==
    k.pc \in {"ex_begin", "ex_stride", "ex_end"} /\ k.after = "im_loop"

\* C28: every step of a cryptonight_hash call with a half-memory variant
\* keeps to the protocol: first_half is written by the Seed step, to 1,
\* and by the head of the second drain pass, to 0, and by no other step,
\* so that it is 1 all through the first fill and 0 all through the
\* refill; save_state is written by the end of the first fill only, with
\* the working blocks, while first_half = 1, and read by the start of the
\* refill only, into the working blocks, while first_half = 0; at most
\* one write and one read happen, the read after the write, and exactly
\* one of each has happened when the call returns. No step of a call
\* with another variant of the table reads or writes either field.
C28_HalfMemoryProtocol ==
    [][\A c \in Ctxs :
          (call[c].pc \in CnPcs /\ ValidVariant(call[c].variant)) =>
             LET k == call[c]
                 a == hist'[c].acc
             IN IF VHalfMem(k.variant)
                THEN /\ Accessing(c, "write", "first_half")
                           <=> (k.pc = "cn_enter" \/ (k.pc = "im_pass" /\ k.pass = 1))
                     /\ k.pc = "cn_enter" => ctx'[c].first_half = 1
                     /\ (k.pc = "im_pass" /\ k.pass = 1) => ctx'[c].first_half = 0
                     /\ ctx'[c].first_half # ctx[c].first_half
                           => Accessing(c, "write", "first_half")
                     /\ InFirstFill(call'[c]) => ctx'[c].first_half = 1
                     /\ InRefill(call'[c]) => ctx'[c].first_half = 0
                     /\ Accessing(c, "write", "save_state")
                           <=> (k.pc = "ex_end" /\ InFirstFill(k))
                     /\ Accessing(c, "write", "save_state")
                           => /\ ctx[c].first_half = 1
                              /\ ctx'[c].save_state = Flat(k.blocks)
                     /\ ctx'[c].save_state # ctx[c].save_state
                           => Accessing(c, "write", "save_state")
                     /\ Accessing(c, "read", "save_state")
                           <=> (k.pc = "ex_begin" /\ InRefill(k))
                     /\ Accessing(c, "read", "save_state")
                           => /\ ctx[c].first_half = 0
                              /\ call'[c].blocks = Blocks8(ctx[c].save_state)
                              /\ Accesses(hist[c].acc, "write", "save_state") = 1
                     /\ Accesses(a, "write", "save_state") <= 1
                     /\ Accesses(a, "read", "save_state") <= 1
                     /\ call'[c].pc = "idle"
                           => /\ Accesses(a, "write", "save_state") = 1
                              /\ Accesses(a, "read", "save_state") = 1
                ELSE /\ a = <<>>
                     /\ ctx'[c].first_half = ctx[c].first_half
                     /\ ctx'[c].save_state = ctx[c].save_state]_vars

\* A call with a half-memory variant has returned with the two fields
\* accessed: save_state written once and then read once.
C28_Witness ==
    \E c \in Ctxs :
        /\ CnReturned(c)
        /\ ValidVariant(hist[c].cn_variant)
        /\ VHalfMem(hist[c].cn_variant)
        /\ Accesses(hist[c].acc, "write", "save_state") = 1
        /\ Accesses(hist[c].acc, "read", "save_state") = 1
        /\ Accesses(hist[c].acc, "write", "first_half") = 2

(* ------------------------------------------------------------------ *)
(* C29: the working state between Seed and Finalize.                    *)
(* ------------------------------------------------------------------ *)

\* The step of context c is taken after the Seed step and before the
\* Finalize step of a call with a variant of the table.
MidStep(c) ==
    /\ call[c].pc \in CnPcs \ {"cn_enter", "cn_final"}
    /\ ValidVariant(call[c].variant)

\* C29: no step between Seed and Finalize changes bytes 0..63 or
\* 192..199 of the working state; bytes 64..191 are changed by the last
\* step of Implode only, which stores the 8 drained blocks there; hence
\* every Explode, the refill included, expands its key from the same
\* state bytes 0..31 and the refill has the round keys of the first fill,
\* and the drain starts from the 8 blocks that the first fill started
\* from, which are state bytes 64..191 as the Seed step left them.
C29_StateFrame ==
    [][\A c \in Ctxs :
          MidStep(c) =>
             LET k == call[c]
                 st == ctx[c].state
                 st2 == ctx'[c].state
             IN /\ Bytes(st2, 0, 64) = Bytes(st, 0, 64)
                /\ Bytes(st2, 192, 8) = Bytes(st, 192, 8)
                /\ Bytes(st2, 64, 128) # Bytes(st, 64, 128) => k.pc = "im_end"
                /\ k.pc = "im_end" => Bytes(st2, 64, 128) = Flat(k.xout)
                /\ (k.pc = "ex_begin" /\ hist[c].fill0 # <<>>)
                      => /\ Bytes(st, 0, 32) = hist[c].fill0[1]
                         /\ call'[c].ex_rk = k.ex_rk
                /\ k.pc = "im_begin"
                      => /\ call'[c].xout = hist[c].fill0[2]
                         /\ Flat(call'[c].xout) = Bytes(st, 64, 128)]_vars

\* A half-memory call is about to refill, with the scratchpad of the
\* first fill and the main loop behind it.
C29_Witness ==
    \E c \in Ctxs :
        /\ InRefill(call[c])
        /\ call[c].pc = "ex_stride"
        /\ hist[c].fill0 # <<>>
        /\ call[c].ex_rk = cn_aes_genkey(hist[c].fill0[1])
        /\ hist[c].work.iters = VIterations(call[c].variant)

(* ------------------------------------------------------------------ *)
(* C23: the order of the output of select_indices.                      *)
(* ------------------------------------------------------------------ *)

\* The 64 nibbles of a seed: of each byte the low one, then the high one.
NibbleStream(seed) ==
    [i \in 1..64 |-> IF i % 2 = 1 THEN seed[(i + 1) \div 2] % 16
                                  ELSE seed[i \div 2] \div 16]

\* The values nibble mod n in the order of the stream, the values that
\* occur, and the place of the first occurrence of one that does.
Hits(n, seed) == [i \in 1..64 |-> NibbleStream(seed)[i] % n]

Occurring(n, seed) == {Hits(n, seed)[i] : i \in 1..64}

FirstAt(n, seed, v) ==
    CHOOSE i \in 1..64 :
        /\ Hits(n, seed)[i] = v
        /\ \A j \in 1..(i - 1) : Hits(n, seed)[j] # v

\* C23: the output of select_indices begins with the values of
\* nibble mod n that occur among the 64 nibbles of the seed, scanned low
\* nibble first byte after byte, each once and in the order of their
\* first occurrences; the rest of the output is the indices that do not
\* occur, in ascending order.
C23_FirstOccurrenceThenAscending ==
    sel.done =>
        LET n == sel.n
            m == Cardinality(Occurring(n, sel.seed))
            out == sel.indices
        IN /\ Len(out) = n
           /\ {out[j] : j \in 1..m} = Occurring(n, sel.seed)
           /\ \A j \in 1..(m - 1) :
                  FirstAt(n, sel.seed, out[j]) < FirstAt(n, sel.seed, out[j + 1])
           /\ {out[j] : j \in (m + 1)..n} = (0..(n - 1)) \ Occurring(n, sel.seed)
           /\ \A j \in (m + 1)..(n - 1) : out[j] < out[j + 1]

\* A seed whose first byte has two different nibbles and which leaves at
\* least two of the 15 indices to the fill has been permuted.
C23_Witness ==
    /\ sel.done
    /\ sel.n = NUM_CORE_HASHES
    /\ sel.seed[1] % 16 # sel.seed[1] \div 16
    /\ sel.indices[1] = (sel.seed[1] % 16) % sel.n
    /\ sel.indices[2] = (sel.seed[1] \div 16) % sel.n
    /\ Cardinality(Occurring(sel.n, sel.seed)) \in 3..(NUM_CORE_HASHES - 2)

(* ------------------------------------------------------------------ *)
(* C26: the indices that ghostrider_hash passes on.                     *)
(* ------------------------------------------------------------------ *)

\* The indices of the calls of one kind in a log, in order.
IndicesOf(log, kind) ==
    LET at == {n \in 1..Len(log) : log[n].kind = kind}
    IN [n \in at |-> log[n].index]

Injective(f) == \A m, n \in DOMAIN f : f[m] = f[n] => m = n

\* C26: in a ghostrider_hash call that is not refused, every primitive
\* index passed on is in 0..14 and no primitive is invoked twice, every
\* variant passed to the engine is in 0..5 and no variant is used twice,
\* and the engine never takes its invalid-variant branch; once the call
\* has returned 0, the 15 primitives have been invoked once each and 3
\* engine calls have been made.
C26_IndicesInRange ==
    \A c \in Ctxs :
        LET core == IndicesOf(PipelineLog(c), "core")
            cn   == IndicesOf(PipelineLog(c), "cn")
        IN /\ \A n \in DOMAIN core : core[n] \in 0..(NUM_CORE_HASHES - 1)
           /\ Injective(core)
           /\ \A n \in DOMAIN cn : cn[n] \in 0..(NUM_CN_VARIANTS - 1)
           /\ Injective(cn)
           /\ (call[c].ret = "gr" /\ call[c].pc \in CnPcs)
                 => ValidVariant(call[c].variant)
           /\ (hist[c].rc = 0 /\ hist[c].args # NoArgs)
                 => /\ {core[n] : n \in DOMAIN core} = 0..(NUM_CORE_HASHES - 1)
                    /\ Cardinality(DOMAIN core) = NUM_CORE_HASHES
                    /\ Cardinality({cn[n] : n \in DOMAIN cn}) = 3
                    /\ Cardinality(DOMAIN cn) = 3

\* The 43-byte header has been hashed: 15 primitive calls and 3 engine
\* calls, the last of them with variant 4.
C26_Witness ==
    \E c \in Ctxs :
        /\ hist[c].rc = 0
        /\ hist[c].args.input_len = 43
        /\ Cardinality(DOMAIN IndicesOf(hist[c].log, "core")) = NUM_CORE_HASHES
        /\ Cardinality(DOMAIN IndicesOf(hist[c].log, "cn")) = 3
        /\ hist[c].log[18].index = 4

(* ------------------------------------------------------------------ *)
(* C27: a refused ghostrider_hash writes nothing.                       *)
(* ------------------------------------------------------------------ *)

\* The step of context c is a call of ghostrider_hash that is refused.
Refusal(c) == call[c].pc = "idle" /\ hist'[c].rc = 0 - 1

\* C27: the step of a ghostrider_hash call that returns an error leaves
\* the output buffer and the context as they were and makes no call of
\* a primitive or of the engine; and every step that changes the output
\* buffer or the context belongs to a call whose arguments have passed
\* the check.
C27_ErrorWritesNothing ==
    [][\A c \in Ctxs :
          /\ Refusal(c) => /\ output'[c] = output[c]
                           /\ ctx'[c] = ctx[c]
                           /\ hist'[c].log = hist[c].log
                           /\ call'[c].pc = "idle"
          /\ (output'[c] # output[c] \/ ctx'[c] # ctx[c])
                => /\ call[c].pc # "idle"
                   /\ call[c].ret = "gr"
                   /\ ~BadArguments(call[c].args)]_vars

\* After a successful hash, a call with a null output pointer has been
\* refused, and the buffer still holds the digest of that hash.
C27_Witness ==
    \E c \in Ctxs :
        /\ hist[c].rc = 0 - 1
        /\ hist[c].args.output_null
        /\ ~hist[c].args.input_null
        /\ \E r \in results : output[c] = r.output
        /\ ctx[c].state # Zeros(200)

(* ------------------------------------------------------------------ *)
(* SpecPair: the head of ghostrider_hash applied to two headers, on two *)
(* contexts of different content.                                       *)
(* ------------------------------------------------------------------ *)

\* The lengths of the headers, the seeds as (a, b) of SeedOf, and the
\* multipliers of the bytes outside the seed.
PairLens == {43, 44, 76, 80}

PairSeeds == {<<15, 21>>, <<2, 48>>, <<0, 255>>, <<32, 7>>}

PairFills == {3, 5}

\* A header of len bytes whose bytes 4..35 are SeedOf(s[1], s[2]) and
\* whose other bytes follow from len and f.
PairHeader(len, s, f) ==
    [j \in 1..len |->
        IF j - 1 \in 4..35 THEN SeedOf(s[1], s[2])[j - 4]
        ELSE ((f * j) + len) % 256] \o <<>>

PairHeaders == {PairHeader(len, s, f) : len \in PairLens, s \in PairSeeds, f \in PairFills}

\* The two permutations that ghostrider_hash has when it enters its
\* loop, called with header hd on a context of content g.
Selected(hd, g) ==
    LET k == GrCallOf(Idle, CtxInit(g), OutInit, HistInit,
                      GrArg(hd, FALSE, FALSE, FALSE)).call
    IN [core |-> k.core_indices, cn |-> k.cn_indices]

PairApply ==
    /\ unit.pc = "pair"
    /\ unit' = [unit EXCEPT !.pc = "pair_done",
                            !.r1 = Selected(unit.h1, 0),
                            !.r2 = Selected(unit.h2, 1)]
    /\ UNCHANGED <<sel, ctx, call, output, hist, results, ncalls, sph, heap>>

PairInit ==
    /\ sel = SelIdle
    /\ ctx = [c \in Ctxs |-> NoCtx]
    /\ call = [c \in Ctxs |-> Idle]
    /\ output = [c \in Ctxs |-> OutInit]
    /\ hist = [c \in Ctxs |-> HistInit]
    /\ results = {}
    /\ ncalls = 0
    /\ sph = SphIdle
    /\ heap = HeapIdle("posix")
    /\ unit \in {[pc |-> "pair", h1 |-> h1, h2 |-> h2, r1 |-> <<>>, r2 |-> <<>>] :
                    h1 \in PairHeaders, h2 \in PairHeaders}

PairNext == PairApply

SpecPair == PairInit /\ [][PairNext]_vars

\* C24: two headers of 43 bytes or more that agree on bytes 4..35,
\* whatever their lengths, their other bytes and the contexts they are
\* hashed on, give ghostrider_hash the same order of the 15 primitives
\* and the same order of the 6 variants.
C24_OrdersFromSeedOnly ==
    (unit.pc = "pair_done" /\ Bytes(unit.h1, 4, 32) = Bytes(unit.h2, 4, 32))
        => /\ unit.r1.core = unit.r2.core
           /\ unit.r1.cn = unit.r2.cn
           /\ Len(unit.r1.core) = NUM_CORE_HASHES
           /\ Len(unit.r1.cn) = NUM_CN_VARIANTS

\* Two headers of different lengths that agree on bytes 4..35 and differ
\* in their first byte have been given their orders.
C24_Witness ==
    /\ unit.pc = "pair_done"
    /\ Bytes(unit.h1, 4, 32) = Bytes(unit.h2, 4, 32)
    /\ Len(unit.h1) = 43
    /\ Len(unit.h2) = 76
    /\ unit.h1[1] # unit.h2[1]
    /\ unit.r1.core = unit.r2.core
    /\ unit.r1.core # [j \in 1..NUM_CORE_HASHES |-> j - 1]

(* ------------------------------------------------------------------ *)
(* C25: the blocks the sponge absorbs (SpecKeccak).                     *)
(* ------------------------------------------------------------------ *)

\* The j-th block of rate bytes of the input.
RateBlock(input, rate, j) == Bytes(input, rate * (j - 1), rate)

\* The last block as the claim pads it: the remaining bytes, 0x01, zeros
\* up to the rate, and 0x80 OR-ed into the last byte.
Padded(rest, rate) ==
    [j \in 1..rate |->
        IF j <= Len(rest) THEN rest[j]
        ELSE IF j = Len(rest) + 1 /\ j = rate THEN \h81
        ELSE IF j = Len(rest) + 1 THEN \h01
        ELSE IF j = rate THEN \h80
        ELSE 0] \o <<>>

\* C25: a call of gr_keccak whose rate is positive and that has returned
\* has absorbed the floor(len / rate) whole rate-sized blocks of the
\* input, one permutation after each, and then the padded last block
\* with one more permutation: floor(len / rate) + 1 absorptions and as
\* many permutations, each absorption of rate bytes, the last one of the
\* remaining bytes followed by 0x01, by zeros and by 0x80 in the last
\* byte (0x81 when rate - 1 bytes remain).
C25_AbsorbsWholeBlocks ==
    (unit.pc = "done" /\ KeccakRate(unit.mdlen) > 0) =>
        LET rate == KeccakRate(unit.mdlen)
            full == unit.inlen \div rate
        IN /\ unit.turns = full
           /\ unit.perms = full + 1
           /\ unit.temp = Padded(Bytes(unit.input, rate * full, unit.inlen % rate), rate)
           /\ Len(unit.absorbed) = full + 1
           /\ \A j \in 1..full : unit.absorbed[j] = RateBlock(unit.input, rate, j)
           /\ unit.absorbed[full + 1] = unit.temp

====
